---- MODULE Spec2Model ----
(***************************************************************************)
(* Model of the feature-detection / matrix / sentiment-collapse stages of  *)
(* the app analysis pipeline:                                              *)
(*   llm/feature_flags.py         pattern library, evidence collector,     *)
(*                                review matcher, confidence scorer,       *)
(*                                detect_feature driver                    *)
(*   etl/build_feature_matrix.py  load_feature_long, write_matrices,       *)
(*                                maybe_bundle                             *)
(*   etl/build_app_cards.py       _weighted_mean, _aggregate_sentiment     *)
(*                                                                         *)
(* Conventions.  A confidence is an integer number of hundredths (0.80 is  *)
(* 80).  A cell of a CSV/DataFrame is a tagged value: a string, NaN or a   *)
(* number.  Text is a TLA+ string; characters are strings of length 1.     *)
(* An averaged metric is an exact fraction [num, den] (den > 0).           *)
(***************************************************************************)
EXTENDS Integers, Sequences, FiniteSets, TLC

VARIABLES
    \* ---- _confidence_from_sources, called in isolation
    sources,        \* list of source labels handed to the scorer
    review_hits,    \* review hit count handed to the scorer
    conf,           \* value returned by the scorer for (sources, review_hits)
    \* ---- detect_feature
    feature,        \* feature key given to detect_feature
    apps_csv,       \* app table on disk (rows of apps_clean.csv)
    web_csv,        \* website-text table on disk
    reviews_csv,    \* review table on disk
    df,             \* apps.merge(web, how="left")
    reviews,        \* _load_reviews(reviews_csv): app_key, body_low, title_low
    idx,            \* position of the itertuples loop in df (1-based)
    rows,           \* rows list built by the loop
    out_csv,        \* the per-feature CSV written at the end
    pc,             \* position of detect_feature
    \* ---- build_matrices
    in_dir,         \* per-feature label files of the input directory
    min_conf,       \* --min-confidence (hundredths)
    min_hits,       \* --min-review-hits
    sent_csv,       \* sentiment aggregate on disk (country rows)
    long_df,        \* result of load_feature_long
    matrices,       \* the three matrices written by write_matrices
    bundle_apps,    \* --bundle-apps
    bundle_sent,    \* --bundle-sent
    bundle,         \* features_bundle.csv written by maybe_bundle
    mpc,            \* position of build_matrices
    \* ---- build_app_cards._aggregate_sentiment
    sent,           \* sentiment table handed to _aggregate_sentiment
    sent_agg,       \* its result
    cpc             \* position of the aggregation

confVars  == <<sources, review_hits, conf>>
flagVars  == <<feature, apps_csv, web_csv, reviews_csv, df, reviews, idx, rows, out_csv, pc>>
matVars   == <<in_dir, min_conf, min_hits, sent_csv, long_df, matrices,
               bundle_apps, bundle_sent, bundle, mpc>>
cardVars  == <<sent, sent_agg, cpc>>

VARIABLES
    \* ---- build_matrices run a second time
    app_sentiment,  \* out_dir/app_sentiment.csv, the fallback of --sent-csv
    earlier         \* what the previous build_matrices run left behind

rerunVars == <<app_sentiment, earlier>>

VARIABLES
    \* ---- llm/irr.main
    irr_in,         \* features_llm.csv: exists, has the needed columns, rows
    human_csv,      \* the --human file: exists, rows
    irr_out,        \* feature_irr.csv: written, rows
    ipc             \* position of irr.main
irrVars == <<irr_in, human_csv, irr_out, ipc>>

\* the stages modelled further down
VARIABLES
    \* ---- etl/flatten_features.main
    flat_in,        \* features.csv: one row per (app, rater) with the parsed JSON blob
    flat_out,       \* features_flat.csv
    fpc             \* position of flatten_features.main

flatVars == <<flat_in, flat_out, fpc>>

VARIABLES
    \* ---- llm/sentiment_pipeline.run_sentiment
    inp,            \* the review CSV: exists, has a special_reviews column, rows
    special_only,   \* --special-only
    sdf,            \* the filtered and scored frame
    out_reviews,    \* row-level output: written, rows
    out_apps,       \* per (app_key, store, country) aggregates: written, rows
    spc             \* position of run_sentiment

sentimentVars == <<inp, special_only, sdf, out_reviews, out_apps, spc>>

VARIABLES
    \* ---- scrapers/reviews_pipeline.run_reviews_to_csv
    ropts,          \* flush_every, dedupe_scope, cutoff (0: none), overwrite
    rev_out,        \* the output CSV: exists, rows
    seen_by_id,     \* set of id keys already taken
    best_by_text,   \* best row per text key, in insertion order
    batch,          \* rows fetched and not yet flushed
    fetches,        \* number of (app, country, lang) fetches done
    rpc             \* position of run_reviews_to_csv

reviewsVars == <<ropts, rev_out, seen_by_id, best_by_text, batch, fetches, rpc>>

VARIABLES
    \* ---- etl/clean_apps.main
    apps_all,       \* apps_all.csv rows
    apps_kept,      \* apps_clean.csv
    apps_dropped,   \* apps_dropped.csv
    kpc             \* position of clean_apps.main

cleanVars == <<apps_all, apps_kept, apps_dropped, kpc>>

VARIABLES
    \* ---- app_key from the app scrapers to the review scraper
    seeds,          \* candidate (store, id) items handed to scrape_details
    app_table,      \* the app table rows scrape_details produced
    candidates,     \* load_candidates_from_dump(app table)
    review_rows,    \* review rows fetched for the candidates
    xpc             \* position: scrape, load, fetch, done

keysVars == <<seeds, app_table, candidates, review_rows, xpc>>

VARIABLES
    \* ---- etl/scrape_websites.main
    site_apps,      \* the apps CSV: app_key, website_url
    site_opts,      \* resume, max_sites (0: no limit)
    site_out,       \* websites.csv: exists, rows
    done,           \* app_keys read from the existing output
    site_rows,      \* rows scraped in this run
    site_i,         \* position of the loop over the apps (1-based)
    fetched,        \* app_keys fetch_text was called for in this run
    at_start,       \* the output file as the run found it
    runs,           \* number of finished runs
    wpc             \* position of scrape_websites.main

sitesVars == <<site_apps, site_opts, site_out, done, site_rows, site_i, fetched, at_start, runs, wpc>>

VARIABLES
    \* ---- etl/llm_features.main
    llm_df,         \* apps merged with the website text, one row per app
    llm_opts,       \* resume, max_apps (0: no limit)
    llm_out,        \* features.csv: exists, header, rows
    llm_done,       \* app_keys read from the existing output
    llm_rows,       \* rows produced in this run
    llm_i,          \* position of the loop over the apps (1-based)
    llm_start,      \* the output file as the run found it
    llm_runs,       \* number of runs that ended
    lpc             \* position of llm_features.main

featsVars == <<llm_df, llm_opts, llm_out, llm_done, llm_rows, llm_i, llm_start, llm_runs, lpc>>

VARIABLES
    \* ---- scrape_details and run_reviews_to_csv with failing calls
    tol_items,      \* the (store, id) items handed to scrape_details
    tol_rows,       \* rows scrape_details has collected
    tol_i,          \* position of its loop (1-based)
    tol_log,        \* indices of the items logged as failed
    tol_opts,       \* flush_every, dedupe_scope, cutoff, overwrite
    tol_combos,     \* the (store, app_id, country, lang) fetches, in loop order
    tol_j,          \* position of the fetch loop (1-based)
    tol_batch,      \* rows fetched and not yet flushed
    tol_st,         \* seen_by_id and best_by_text
    tol_csv,        \* the reviews CSV
    tol_warn,       \* indices of the fetches warned about
    tol_got,        \* rows the successful fetches returned
    tpc             \* position: details, reviews, done

tolVars == <<tol_items, tol_rows, tol_i, tol_log, tol_opts, tol_combos, tol_j, tol_batch, tol_st, tol_csv, tol_warn, tol_got, tpc>>

VARIABLES
    \* ---- the LLM labeling stages and the vendor API key
    lab_stage,      \* which program runs: llm_features, feature_extract, feature_llm,
                    \* feature_extractor, or refresh_all (step 8)
    lab_key,        \* whether the vendor API key is in the environment
    lab_apps,       \* the app table
    lab_i,          \* position of the loop over the apps (1-based)
    lab_rows,       \* results collected so far
    lab_out,        \* the stage's output file: written, rows
    lab_calls,      \* requests sent to the vendor
    lab_failed,     \* indices of the apps whose vendor call raised
    lab_matrix,     \* refresh_all has started its matrix step
    vpc             \* position: start, loop, done, skipped, crashed, exited

vendorVars == <<lab_stage, lab_key, lab_apps, lab_i, lab_rows, lab_out, lab_calls, lab_failed, lab_matrix, vpc>>

VARIABLES
    \* ---- detect_feature run twice on the same tables
    first_run       \* the output of the first run, once a second run was started

twiceVars == <<first_run>>

VARIABLES
    \* ---- scripts/refresh_all.main
    ref_opts,       \* dry, coe, skip (set of step names), use_llm, key, fresh
    ref_step,       \* the step main is at (1..9; 10 after the last)
    ref_running,    \* the step whose command is running, 0 when none
    ref_log,        \* the commands started and ended, in order
    ref_files,      \* data files on disk
    ref_files0,     \* data files on disk when the run began
    ref_exit,       \* exit code of refresh_all (-1 while it runs)
    refpc            \* position: run, exited, finished

refreshVars == <<ref_opts, ref_step, ref_running, ref_log, ref_files, ref_files0, ref_exit, refpc>>

VARIABLES
    \* ---- _pick_better and the preference of read_seen_keys on one pair
    pick_a,         \* the row already kept
    pick_b,         \* a new text-equivalent row
    pick_out,       \* _pick_better(pick_a, pick_b)
    pick_seen,      \* best_by_text after read_seen_keys read a CSV holding a, then b
    ppc             \* position: start, picked, done

pickVars == <<pick_a, pick_b, pick_out, pick_seen, ppc>>

VARIABLES
    http_url,       \* fetch_http: the url argument ("" when absent)
    http_attempts,  \* the attempts argument
    attempt,        \* the loop variable of range(attempts)
    last_status,    \* status of the last response, 0 for None
    html,           \* text of the successful response, "" until then
    last_final,     \* final URL of the last response, "" for None
    page_title,     \* title of the successful response, "" for None
    http_sent,      \* what each request issued so far met, in order
    http_slept,     \* seconds slept so far, in tenths
    http_ret,       \* the returned tuple, <<>> before the return
    hpc             \* idle, start, loop, break, done

httpVars == <<http_url, http_attempts, attempt, last_status, html, last_final, page_title, http_sent, http_slept, http_ret, hpc>>

laterVars == <<irrVars, flatVars, sentimentVars, reviewsVars, cleanVars, keysVars, sitesVars, featsVars, tolVars, vendorVars, twiceVars, refreshVars, pickVars, httpVars>>
exceptIrr == <<confVars, flagVars, matVars, cardVars, rerunVars, flatVars, sentimentVars, reviewsVars, cleanVars, keysVars, sitesVars, featsVars, tolVars, vendorVars, twiceVars, refreshVars, pickVars, httpVars>>
exceptFlat == <<confVars, flagVars, matVars, cardVars, rerunVars, irrVars, sentimentVars, reviewsVars, cleanVars, keysVars, sitesVars, featsVars, tolVars, vendorVars, twiceVars, refreshVars, pickVars, httpVars>>
exceptSentiment == <<confVars, flagVars, matVars, cardVars, rerunVars, irrVars, flatVars, reviewsVars, cleanVars, keysVars, sitesVars, featsVars, tolVars, vendorVars, twiceVars, refreshVars, pickVars, httpVars>>
exceptReviews == <<confVars, flagVars, matVars, cardVars, rerunVars, irrVars, flatVars, sentimentVars, cleanVars, keysVars, sitesVars, featsVars, tolVars, vendorVars, twiceVars, refreshVars, pickVars, httpVars>>
exceptClean == <<confVars, flagVars, matVars, cardVars, rerunVars, irrVars, flatVars, sentimentVars, reviewsVars, keysVars, sitesVars, featsVars, tolVars, vendorVars, twiceVars, refreshVars, pickVars, httpVars>>
exceptKeys == <<confVars, flagVars, matVars, cardVars, rerunVars, irrVars, flatVars, sentimentVars, reviewsVars, cleanVars, sitesVars, featsVars, tolVars, vendorVars, twiceVars, refreshVars, pickVars, httpVars>>
exceptSites == <<confVars, flagVars, matVars, cardVars, rerunVars, irrVars, flatVars, sentimentVars, reviewsVars, cleanVars, keysVars, featsVars, tolVars, vendorVars, twiceVars, refreshVars, pickVars, httpVars>>
exceptFeats == <<confVars, flagVars, matVars, cardVars, rerunVars, irrVars, flatVars, sentimentVars, reviewsVars, cleanVars, keysVars, sitesVars, tolVars, vendorVars, twiceVars, refreshVars, pickVars, httpVars>>
exceptTol == <<confVars, flagVars, matVars, cardVars, rerunVars, irrVars, flatVars, sentimentVars, reviewsVars, cleanVars, keysVars, sitesVars, featsVars, vendorVars, twiceVars, refreshVars, pickVars, httpVars>>
exceptVendor == <<confVars, flagVars, matVars, cardVars, rerunVars, irrVars, flatVars, sentimentVars, reviewsVars, cleanVars, keysVars, sitesVars, featsVars, tolVars, twiceVars, refreshVars, pickVars, httpVars>>
exceptTwice == <<confVars, flagVars, matVars, cardVars, rerunVars, irrVars, flatVars, sentimentVars, reviewsVars, cleanVars, keysVars, sitesVars, featsVars, tolVars, vendorVars, refreshVars, pickVars, httpVars>>
exceptDetect == <<confVars, matVars, cardVars, rerunVars, irrVars, flatVars, sentimentVars, reviewsVars, cleanVars, keysVars, sitesVars, featsVars, tolVars, vendorVars, refreshVars, pickVars, httpVars>>
exceptRefresh == <<confVars, flagVars, matVars, cardVars, rerunVars, irrVars, flatVars, sentimentVars, reviewsVars, cleanVars, keysVars, sitesVars, featsVars, tolVars, vendorVars, twiceVars, pickVars, httpVars>>
exceptPick == <<confVars, flagVars, matVars, cardVars, rerunVars, irrVars, flatVars, sentimentVars, reviewsVars, cleanVars, keysVars, sitesVars, featsVars, tolVars, vendorVars, twiceVars, refreshVars, httpVars>>
exceptHttp == <<confVars, flagVars, matVars, cardVars, rerunVars, irrVars, flatVars, sentimentVars, reviewsVars, cleanVars, keysVars, sitesVars, featsVars, tolVars, vendorVars, twiceVars, refreshVars, pickVars>>
extVars   == <<rerunVars, laterVars>>
vars      == <<confVars, flagVars, matVars, cardVars, extVars>>

-----------------------------------------------------------------------------
(* Bounds of the model *)

MaxSources   == 4     \* longest source list handed to the scorer
MaxHits      == 26    \* largest review_hits handed to the scorer
MaxReviews   == 25    \* most copies of one review in a generated review table
MaxVaried    == 2     \* longest hand-mixed review table
MaxWebRows   == 2     \* most rows of the website-text table
MaxFileRows  == 2     \* most rows of one per-feature label file
MaxSentRows  == 3     \* most country rows of the sentiment table

-----------------------------------------------------------------------------
(* Cell values *)

Str(s) == [kind |-> "str", s |-> s,  n |-> 0]
Num(k) == [kind |-> "num", s |-> "", n |-> k]
NaN    == [kind |-> "nan", s |-> "", n |-> 0]

IsStr(v) == v.kind = "str"
IsNaN(v) == v.kind = "nan"

\* Sequence of the elements of seq satisfying Test, in order.
RECURSIVE SelectIdx(_, _, _)
SelectIdx(seq, keep, i) ==
    IF i > Len(seq) THEN <<>>
    ELSE (IF i \in keep THEN <<seq[i]>> ELSE <<>>) \o SelectIdx(seq, keep, i + 1)

\* n copies of x
Rep(n, x) == [i \in 1..n |-> x]

\* all sequences over S of length at most n
SeqsUpTo(S, n) == UNION {[1..k -> S] : k \in 0..n}

-----------------------------------------------------------------------------
(* Text: Python str operations used by the matchers *)

\* characters in ASCII order (the order Python compares str by)
Ascii == " ,-0123456789:ABCDEFGHIJKLMNOPQRSTUVWXYZ_abcdefghijklmnopqrstuvwxyz"
Upper == "ABCDEFGHIJKLMNOPQRSTUVWXYZ"
Lower == "abcdefghijklmnopqrstuvwxyz"
Digits == "0123456789"

Chars(str) == {SubSeq(str, i, i) : i \in 1..Len(str)}
At(t, i) == SubSeq(t, i, i)

UpperChars == Chars(Upper)
IndexIn(str, c) == CHOOSE i \in 1..Len(str) : At(str, i) = c
LowerOf == [c \in UpperChars |-> At(Lower, IndexIn(Upper, c))]

\* str.lower()
LowerChar(c) == IF c \in UpperChars THEN LowerOf[c] ELSE c
RECURSIVE LowerFrom(_, _)
LowerFrom(t, i) ==
    IF i > Len(t) THEN "" ELSE LowerChar(At(t, i)) \o LowerFrom(t, i + 1)
lower(t) == LowerFrom(t, 1)

\* str.strip()
IsSpace(c) == c \in {" ", "\t", "\n"}
RECURSIVE lstrip(_)
lstrip(t) == IF t # "" /\ IsSpace(Head(t)) THEN lstrip(Tail(t)) ELSE t
RECURSIVE rstrip(_)
rstrip(t) ==
    IF t # "" /\ IsSpace(At(t, Len(t))) THEN rstrip(SubSeq(t, 1, Len(t) - 1)) ELSE t
strip(t) == rstrip(lstrip(t))

Ord(c) == IndexIn(Ascii, c)

\* a < b for Python str
RECURSIVE StrLess(_, _)
StrLess(a, b) ==
    IF b = "" THEN FALSE
    ELSE IF a = "" THEN TRUE
    ELSE IF Head(a) = Head(b) THEN StrLess(Tail(a), Tail(b))
    ELSE Ord(Head(a)) < Ord(Head(b))

\* str(n) for a non-negative int
RECURSIVE IntStr(_)
IntStr(k) ==
    IF k < 10 THEN At(Digits, k + 1)
    ELSE IntStr(k \div 10) \o At(Digits, (k % 10) + 1)

\* str(v) / f"{v}" of a cell
PyStr(v) ==
    CASE v.kind = "str" -> v.s
      [] v.kind = "num" -> IntStr(v.n)
      [] v.kind = "nan" -> "nan"

\* Series.fillna("").astype(str)
FillStr(v) == IF IsNaN(v) THEN "" ELSE PyStr(v)

-----------------------------------------------------------------------------
(* Regular expressions of the pattern library.                             *)
(* Every shipped pattern of the modelled features has the shape            *)
(*     \b w1 \s* w2 \s* ... wn \b      (wi drawn from alternatives)        *)
(* so a pattern is a set of phrases and a phrase a sequence of sets of     *)
(* literal words; re.search succeeds iff some phrase occurs at some        *)
(* position with a word boundary on both sides.                            *)

\* \w
WordChars == Chars(Lower) \cup Chars(Upper) \cup Chars(Digits) \cup {"_"}
IsWordChar(c) == c \in WordChars
WordAt(t, i) == i >= 1 /\ i <= Len(t) /\ IsWordChar(At(t, i))
\* a pattern compiled without its \b anchors
NoBoundary(t, i) == TRUE

\* \b between positions i-1 and i
Boundary(t, i) == WordAt(t, i - 1) # WordAt(t, i)

\* \s* : the positions reachable from i over whitespace only
RECURSIVE SkipSpace(_, _)
SkipSpace(t, i) ==
    {i} \cup (IF i <= Len(t) /\ IsSpace(At(t, i)) THEN SkipSpace(t, i + 1) ELSE {})

\* the rest of phrase from word k matches at position i, closing with \b
RECURSIVE MatchFrom(_, _, _, _)
MatchFrom(t, phrase, k, i) ==
    \E w \in phrase[k] :
        /\ i + Len(w) - 1 <= Len(t)
        /\ SubSeq(t, i, i + Len(w) - 1) = w
        /\ IF k = Len(phrase)
           THEN Boundary(t, i + Len(w))
           ELSE \E j \in SkipSpace(t, i + Len(w)) : MatchFrom(t, phrase, k + 1, j)

\* re.Pattern.search(t) is not None
search(p, t) ==
    \E phrase \in p : \E i \in 1..Len(t) :
        Boundary(t, i) /\ MatchFrom(t, phrase, 1, i)

Block == {"block", "blocker", "blocking"}

\* FEATURE_PATTERNS, restricted to the modelled features
FEATURE_PATTERNS ==
    [ blocking |-> <<
        {<<{"block", "blocking", "blocker", "blacklist", "whitelist"}>>},
        {<<{"app", "site", "website"}, Block>>},
        {<<{"site", "website"}, {"filter", "filtering", "filters"}>>},
        {<<{"nuclear"}, {"option"}>>},
        {<<{"distraction"}, Block>>},
        {<<{"porn"}, Block>>},
        {<<{"social"}, Block>>, <<{"social"}, {"media"}, Block>>},
        {<<{"shorts"}, Block>>},
        {<<{"reel", "reels"}, Block>> } >>,
      pomodoro |-> <<
        {<<{"pomodoro"}>>},
        {<<{"pomo"}>>},
        {<<{"25"}, {"min", "minute"}>>},
        {<<{"4", "four"}, {"cycle", "cycles"}>>},
        {<<{"short"}, {"break"}>>},
        {<<{"long"}, {"break"}>>} >> ]

Features == DOMAIN FEATURE_PATTERNS

\* COMPILED_PATTERNS: re.compile(p, re.I); the texts searched are lower-cased
\* and the patterns are lower-case, so the flag changes nothing
COMPILED_PATTERNS == FEATURE_PATTERNS

-----------------------------------------------------------------------------
(* Matching + scoring *)

\* the for-loop of _any_match / any_hit: first pattern that matches wins
RECURSIVE FirstHit(_, _, _)
FirstHit(t, patterns, k) ==
    IF k > Len(patterns) THEN FALSE
    ELSE IF search(patterns[k], t) THEN TRUE
    ELSE FirstHit(t, patterns, k + 1)

_any_match(text, patterns) ==
    IF ~IsStr(text) \/ text.s = "" THEN FALSE
    ELSE FirstHit(lower(text.s), patterns, 1)

SourceOrder == <<"title", "description", "website", "metadata">>

_signal_sources(row, patterns) ==
    LET meta == Str(PyStr(row.category) \o " " \o PyStr(row.developer))
        hit  == [ title       |-> _any_match(row.title, patterns),
                  description |-> _any_match(row.description, patterns),
                  website     |-> _any_match(row.website_text, patterns),
                  metadata    |-> _any_match(meta, patterns) ]
    IN  SelectIdx(SourceOrder, {i \in 1..4 : hit[SourceOrder[i]]}, 1)

\* any_hit of _count_hits, per row of the series
any_hit(text, patterns) == FirstHit(text, patterns, 1)

RECURSIVE SumHits(_, _, _)
SumHits(series, patterns, k) ==
    IF k > Len(series) THEN 0
    ELSE (IF any_hit(series[k], patterns) THEN 1 ELSE 0) + SumHits(series, patterns, k + 1)

_count_hits(series, patterns) == SumHits(series, patterns, 1)

SetOf(seq) == {seq[i] : i \in 1..Len(seq)}

\* a scorer that counts list entries instead of distinct sources
ConfidenceNoSet(srcs, hits) ==
    LET s == Len(srcs)
    IN  IF s >= 2 THEN 80
        ELSE IF s = 1 /\ hits >= 10 THEN 70
        ELSE IF s = 1 THEN 60
        ELSE IF s = 0 /\ hits >= 25 THEN 55
        ELSE 0

\* a scorer whose single-source tier ignores the review volume when it is high
ConfidenceDip(srcs, hits) ==
    LET s == Cardinality(SetOf(srcs))
    IN  IF s >= 2 THEN 80
        ELSE IF s = 1 /\ hits >= 10 /\ hits < 25 THEN 70
        ELSE IF s = 1 THEN 60
        ELSE IF s = 0 /\ hits >= 25 THEN 55
        ELSE 0

_confidence_from_sources(srcs, hits) ==
    LET s == Cardinality(SetOf(srcs))
    IN  IF s >= 2 THEN 80
        ELSE IF s = 1 /\ hits >= 10 THEN 70
        ELSE IF s = 1 THEN 60
        ELSE IF s = 0 /\ hits >= 25 THEN 55
        ELSE 0

-----------------------------------------------------------------------------
(* Values of the variables of a stage that a specification does not run *)

\* a sentiment CSV: whether the path exists, whether the file has a header
\* line (a file of zero bytes has none), whether the header names a country
\* column, and the data rows
SentFile(exists, header, has_country, rs) ==
    [exists |-> exists, header |-> header, has_country |-> has_country, rows |-> rs]
NoFile == SentFile(FALSE, FALSE, FALSE, <<>>)

IdleConf  == sources = <<>> /\ review_hits = 0 /\ conf = 0
IdleFlags ==
    /\ feature = "blocking" /\ apps_csv = <<>> /\ web_csv = <<>> /\ reviews_csv = <<>>
    /\ df = <<>> /\ reviews = <<>> /\ idx = 0 /\ rows = <<>> /\ out_csv = <<>>
    /\ pc = "idle"
IdleMat ==
    /\ in_dir = {} /\ min_conf = 0 /\ min_hits = 0
    /\ sent_csv = NoFile
    /\ long_df = <<>> /\ matrices = <<>> /\ bundle_apps = FALSE /\ bundle_sent = FALSE
    /\ bundle = <<>> /\ mpc = "idle"
IdleCards == sent = <<>> /\ sent_agg = <<>> /\ cpc = "idle"
IdleRerun == app_sentiment = NoFile /\ earlier = <<>>

\* the stages modelled further down, all idle
IdleIrr == irr_in = <<>> /\ human_csv = <<>> /\ irr_out = <<>> /\ ipc = "idle"
IdleFlat == flat_in = <<>> /\ flat_out = <<>> /\ fpc = "idle"
IdleSentiment == inp = <<>> /\ special_only = FALSE /\ sdf = <<>> /\ out_reviews = <<>> /\ out_apps = <<>> /\ spc = "idle"
IdleReviews == ropts = <<>> /\ rev_out = <<>> /\ seen_by_id = {} /\ best_by_text = <<>> /\ batch = <<>> /\ fetches = 0 /\ rpc = "idle"
IdleClean == apps_all = <<>> /\ apps_kept = <<>> /\ apps_dropped = <<>> /\ kpc = "idle"
IdleKeys == seeds = <<>> /\ app_table = <<>> /\ candidates = <<>> /\ review_rows = <<>> /\ xpc = "idle"
IdleSites == site_apps = <<>> /\ site_opts = <<>> /\ site_out = <<>> /\ done = {} /\ site_rows = <<>> /\ site_i = 0 /\ fetched = {} /\ at_start = <<>> /\ runs = 0 /\ wpc = "idle"
IdleFeats == llm_df = <<>> /\ llm_opts = <<>> /\ llm_out = <<>> /\ llm_done = {} /\ llm_rows = <<>> /\ llm_i = 0 /\ llm_start = <<>> /\ llm_runs = 0 /\ lpc = "idle"
IdleTol == tol_items = <<>> /\ tol_rows = <<>> /\ tol_i = 0 /\ tol_log = {} /\ tol_opts = <<>> /\ tol_combos = <<>> /\ tol_j = 0 /\ tol_batch = <<>> /\ tol_st = <<>> /\ tol_csv = <<>> /\ tol_warn = {} /\ tol_got = {} /\ tpc = "idle"
IdleVendor == lab_stage = "" /\ lab_key = FALSE /\ lab_apps = <<>> /\ lab_i = 0 /\ lab_rows = <<>> /\ lab_out = <<>> /\ lab_calls = 0 /\ lab_failed = {} /\ lab_matrix = FALSE /\ vpc = "idle"
IdleTwice == first_run = <<>>
IdleRefresh == ref_opts = <<>> /\ ref_step = 0 /\ ref_running = 0 /\ ref_log = <<>> /\ ref_files = {} /\ ref_files0 = {} /\ ref_exit = 0 /\ refpc = "idle"
IdlePick == pick_a = <<>> /\ pick_b = <<>> /\ pick_out = <<>> /\ pick_seen = <<>> /\ ppc = "idle"
IdleHttp == http_url = "" /\ http_attempts = 0 /\ attempt = 0 /\ last_status = 0 /\ html = "" /\ last_final = "" /\ page_title = "" /\ http_sent = <<>> /\ http_slept = 0 /\ http_ret = <<>> /\ hpc = "idle"
IdleLater == IdleIrr /\ IdleFlat /\ IdleSentiment /\ IdleReviews /\ IdleClean /\ IdleKeys /\ IdleSites /\ IdleFeats /\ IdleTol /\ IdleVendor /\ IdleTwice /\ IdleRefresh /\ IdlePick /\ IdleHttp
IdleButIrr == IdleConf /\ IdleFlags /\ IdleMat /\ IdleCards /\ IdleRerun /\ IdleFlat /\ IdleSentiment /\ IdleReviews /\ IdleClean /\ IdleKeys /\ IdleSites /\ IdleFeats /\ IdleTol /\ IdleVendor /\ IdleTwice /\ IdleRefresh /\ IdlePick /\ IdleHttp
IdleButFlat == IdleConf /\ IdleFlags /\ IdleMat /\ IdleCards /\ IdleRerun /\ IdleIrr /\ IdleSentiment /\ IdleReviews /\ IdleClean /\ IdleKeys /\ IdleSites /\ IdleFeats /\ IdleTol /\ IdleVendor /\ IdleTwice /\ IdleRefresh /\ IdlePick /\ IdleHttp
IdleButSentiment == IdleConf /\ IdleFlags /\ IdleMat /\ IdleCards /\ IdleRerun /\ IdleIrr /\ IdleFlat /\ IdleReviews /\ IdleClean /\ IdleKeys /\ IdleSites /\ IdleFeats /\ IdleTol /\ IdleVendor /\ IdleTwice /\ IdleRefresh /\ IdlePick /\ IdleHttp
IdleButReviews == IdleConf /\ IdleFlags /\ IdleMat /\ IdleCards /\ IdleRerun /\ IdleIrr /\ IdleFlat /\ IdleSentiment /\ IdleClean /\ IdleKeys /\ IdleSites /\ IdleFeats /\ IdleTol /\ IdleVendor /\ IdleTwice /\ IdleRefresh /\ IdlePick /\ IdleHttp
IdleButClean == IdleConf /\ IdleFlags /\ IdleMat /\ IdleCards /\ IdleRerun /\ IdleIrr /\ IdleFlat /\ IdleSentiment /\ IdleReviews /\ IdleKeys /\ IdleSites /\ IdleFeats /\ IdleTol /\ IdleVendor /\ IdleTwice /\ IdleRefresh /\ IdlePick /\ IdleHttp
IdleButKeys == IdleConf /\ IdleFlags /\ IdleMat /\ IdleCards /\ IdleRerun /\ IdleIrr /\ IdleFlat /\ IdleSentiment /\ IdleReviews /\ IdleClean /\ IdleSites /\ IdleFeats /\ IdleTol /\ IdleVendor /\ IdleTwice /\ IdleRefresh /\ IdlePick /\ IdleHttp
IdleButSites == IdleConf /\ IdleFlags /\ IdleMat /\ IdleCards /\ IdleRerun /\ IdleIrr /\ IdleFlat /\ IdleSentiment /\ IdleReviews /\ IdleClean /\ IdleKeys /\ IdleFeats /\ IdleTol /\ IdleVendor /\ IdleTwice /\ IdleRefresh /\ IdlePick /\ IdleHttp
IdleButFeats == IdleConf /\ IdleFlags /\ IdleMat /\ IdleCards /\ IdleRerun /\ IdleIrr /\ IdleFlat /\ IdleSentiment /\ IdleReviews /\ IdleClean /\ IdleKeys /\ IdleSites /\ IdleTol /\ IdleVendor /\ IdleTwice /\ IdleRefresh /\ IdlePick /\ IdleHttp
IdleButTol == IdleConf /\ IdleFlags /\ IdleMat /\ IdleCards /\ IdleRerun /\ IdleIrr /\ IdleFlat /\ IdleSentiment /\ IdleReviews /\ IdleClean /\ IdleKeys /\ IdleSites /\ IdleFeats /\ IdleVendor /\ IdleTwice /\ IdleRefresh /\ IdlePick /\ IdleHttp
IdleButVendor == IdleConf /\ IdleFlags /\ IdleMat /\ IdleCards /\ IdleRerun /\ IdleIrr /\ IdleFlat /\ IdleSentiment /\ IdleReviews /\ IdleClean /\ IdleKeys /\ IdleSites /\ IdleFeats /\ IdleTol /\ IdleTwice /\ IdleRefresh /\ IdlePick /\ IdleHttp
IdleButTwice == IdleConf /\ IdleFlags /\ IdleMat /\ IdleCards /\ IdleRerun /\ IdleIrr /\ IdleFlat /\ IdleSentiment /\ IdleReviews /\ IdleClean /\ IdleKeys /\ IdleSites /\ IdleFeats /\ IdleTol /\ IdleVendor /\ IdleRefresh /\ IdlePick /\ IdleHttp
IdleButRefresh == IdleConf /\ IdleFlags /\ IdleMat /\ IdleCards /\ IdleRerun /\ IdleIrr /\ IdleFlat /\ IdleSentiment /\ IdleReviews /\ IdleClean /\ IdleKeys /\ IdleSites /\ IdleFeats /\ IdleTol /\ IdleVendor /\ IdleTwice /\ IdlePick /\ IdleHttp
IdleButPick == IdleConf /\ IdleFlags /\ IdleMat /\ IdleCards /\ IdleRerun /\ IdleIrr /\ IdleFlat /\ IdleSentiment /\ IdleReviews /\ IdleClean /\ IdleKeys /\ IdleSites /\ IdleFeats /\ IdleTol /\ IdleVendor /\ IdleTwice /\ IdleRefresh /\ IdleHttp
IdleButHttp == IdleConf /\ IdleFlags /\ IdleMat /\ IdleCards /\ IdleRerun /\ IdleIrr /\ IdleFlat /\ IdleSentiment /\ IdleReviews /\ IdleClean /\ IdleKeys /\ IdleSites /\ IdleFeats /\ IdleTol /\ IdleVendor /\ IdleTwice /\ IdleRefresh /\ IdlePick
IdleExt   == IdleRerun /\ IdleLater

-----------------------------------------------------------------------------
(* SpecConf: the confidence scorer on its own.  A caller grows the source  *)
(* list and the review hit count and re-scores after every change.         *)

SourceLabels == {"title", "description", "website", "metadata"}

InitConf ==
    /\ sources = <<>>
    /\ review_hits = 0
    /\ conf = _confidence_from_sources(<<>>, 0)
    /\ IdleFlags /\ IdleMat /\ IdleCards /\ IdleExt

AppendSource ==
    /\ Len(sources) < MaxSources
    /\ \E s \in SourceLabels : sources' = Append(sources, s)
    /\ conf' = _confidence_from_sources(sources', review_hits)
    /\ UNCHANGED <<review_hits, flagVars, matVars, cardVars, extVars>>

MoreHits ==
    /\ review_hits < MaxHits
    /\ review_hits' = review_hits + 1
    /\ conf' = _confidence_from_sources(sources, review_hits')
    /\ UNCHANGED <<sources, flagVars, matVars, cardVars, extVars>>

NextConf == AppendSource \/ MoreHits

SpecConf == InitConf /\ [][NextConf]_vars

Distinct == Cardinality(SetOf(sources))

\* C1: the scorer returns exactly the documented table: 0.80 for >= 2 distinct
\* sources; 0.70 for one source and >= 10 review hits; 0.60 for one source and
\* fewer than 10; 0.55 for no source and >= 25 review hits; 0.00 otherwise.
C1_ScoreTable ==
    /\ conf \in {80, 70, 60, 55, 0}
    /\ (conf = 80) <=> (Distinct >= 2)
    /\ (conf = 70) <=> (Distinct = 1 /\ review_hits >= 10)
    /\ (conf = 60) <=> (Distinct = 1 /\ review_hits < 10)
    /\ (conf = 55) <=> (Distinct = 0 /\ review_hits >= 25)
    /\ (conf = 0)  <=> (Distinct = 0 /\ review_hits < 25)

\* a repeated source label counts once: one distinct source, two list entries
C1_Witness ==
    /\ Len(sources) = 2 /\ Distinct = 1 /\ review_hits = 10 /\ conf = 70

\* C3: confidence never decreases when a source is added to the list or when
\* the review hit count grows.
C3_Monotone == [][conf' >= conf]_vars

\* a single-source app at 25 review hits, reached from 24
C3_Witness == Distinct = 1 /\ review_hits = 25 /\ conf = 70

-----------------------------------------------------------------------------
(* detect_feature: loading helpers *)

\* _load_web: app_key and website_text, the text NaN-filled and made str
_load_web(csv) ==
    [i \in 1..Len(csv) |->
        [app_key |-> csv[i].app_key, website_text |-> Str(FillStr(csv[i].website_text))]]

\* _load_reviews: lower-cased, NaN-filled body and title
_load_reviews(csv) ==
    [i \in 1..Len(csv) |->
        [app_key   |-> csv[i].app_key,
         body_low  |-> lower(FillStr(csv[i].body)),
         title_low |-> lower(FillStr(csv[i].title))]]

\* positions of the rows of table whose app_key is key
KeyIdx(table, key) == {i \in 1..Len(table) : table[i].app_key = key}

\* the rows one app row yields in apps.merge(web, on="app_key", how="left"):
\* one per website row of that key, in the website table's order, or one row
\* with a missing website_text
MergeOne(app, web) ==
    LET hit == SelectIdx(web, KeyIdx(web, app.app_key), 1)
    IN  IF hit = <<>>
        THEN << [app_key |-> app.app_key, title |-> app.title,
                 description |-> app.description, category |-> app.category,
                 developer |-> app.developer, website_text |-> NaN] >>
        ELSE [j \in 1..Len(hit) |->
                [app_key |-> app.app_key, title |-> app.title,
                 description |-> app.description, category |-> app.category,
                 developer |-> app.developer, website_text |-> hit[j].website_text]]

RECURSIVE MergeFrom(_, _, _)
MergeFrom(apps, web, i) ==
    IF i > Len(apps) THEN <<>>
    ELSE MergeOne(apps[i], web) \o MergeFrom(apps, web, i + 1)

\* apps.merge(web, on="app_key", how="left")
merge_left(apps, web) == MergeFrom(apps, web, 1)

-----------------------------------------------------------------------------
(* detect_feature: one iteration of the loop, the sort and the write *)

\* ",".join(sources)
RECURSIVE join(_, _)
join(sep, seq) ==
    IF seq = <<>> THEN ""
    ELSE IF Len(seq) = 1 THEN seq[1]
    ELSE seq[1] \o sep \o join(sep, Tail(seq))

\* a review counter that adds one per matcher that fires in a review
RECURSIVE SumMatchers(_, _, _)
SumMatchers(series, patterns, k) ==
    IF k > Len(series) THEN 0
    ELSE Cardinality({j \in 1..Len(patterns) : search(patterns[j], series[k])})
         + SumMatchers(series, patterns, k + 1)

review_hits_of_mutant(rv, has_reviews, key, pats) ==
    LET sub    == SelectIdx(rv, KeyIdx(rv, key), 1)
        series == [i \in 1..Len(sub) |-> strip(sub[i].body_low \o " " \o sub[i].title_low)]
    IN  IF has_reviews /\ sub # <<>> THEN SumMatchers(series, pats, 1) ELSE 0

\* review_hits of one app: lines 344-349
review_hits_of(rv, has_reviews, key, pats) ==
    LET sub    == SelectIdx(rv, KeyIdx(rv, key), 1)
        series == [i \in 1..Len(sub) |-> strip(sub[i].body_low \o " " \o sub[i].title_low)]
    IN  IF has_reviews /\ sub # <<>> THEN _count_hits(series, pats) ELSE 0

\* a keep-test that demands the heuristic floor of one matched source
keep_row_mutant(flagged, c) == c >= 60

\* the test that decides whether the loop appends a row
keep_row(flagged, c) == flagged \/ c >= 55

\* the rows the loop body appends for one row of df (none or one)
detect_row(row, rv, pats) ==
    LET srcs    == _signal_sources(row, pats)
        flagged == Len(srcs) > 0
        hits    == review_hits_of(rv, rv # <<>>, row.app_key, pats)
        c       == _confidence_from_sources(srcs, hits)
    IN  IF keep_row(flagged, c)
        THEN << [app_key     |-> row.app_key,
                 title       |-> row.title,
                 confidence  |-> c,
                 signals     |-> IF srcs # <<>> THEN join(",", srcs)
                                 ELSE IF hits > 0 THEN "reviews" ELSE "",
                 review_hits |-> hits] >>
        ELSE <<>>

\* title order of sort_values: ascending, NaN last
TitleLess(a, b) ==
    IF IsNaN(a) THEN FALSE
    ELSE IF IsNaN(b) THEN TRUE
    ELSE StrLess(PyStr(a), PyStr(b))

\* a sorts strictly before b under
\* ["confidence", "review_hits", "title"], ascending=[False, False, True]
RowBefore(a, b) ==
    \/ a.confidence > b.confidence
    \/ a.confidence = b.confidence /\ a.review_hits > b.review_hits
    \/ a.confidence = b.confidence /\ a.review_hits = b.review_hits
       /\ TitleLess(a.title, b.title)

\* stable insertion: r goes behind every row that does not sort after it
RECURSIVE InsertRow(_, _)
InsertRow(sorted, r) ==
    IF sorted = <<>> THEN <<r>>
    ELSE IF RowBefore(r, Head(sorted)) THEN <<r>> \o sorted
    ELSE <<Head(sorted)>> \o InsertRow(Tail(sorted), r)

RECURSIVE SortFrom(_, _, _)
SortFrom(rs, i, acc) ==
    IF i > Len(rs) THEN acc ELSE SortFrom(rs, i + 1, InsertRow(acc, rs[i]))

\* out_df.sort_values(...): a stable multi-key sort
sort_values(rs) == SortFrom(rs, 1, <<>>)

-----------------------------------------------------------------------------
(* detect_feature as a state machine *)

\* a run that keeps the rows list it finds in memory
LoadTables_mutant ==
    /\ pc = "start"
    /\ df' = merge_left(apps_csv, _load_web(web_csv))
    /\ reviews' = _load_reviews(reviews_csv)
    /\ idx' = 1
    /\ pc' = "loop"
    /\ UNCHANGED <<feature, apps_csv, web_csv, reviews_csv, out_csv, rows>>
    /\ UNCHANGED <<confVars, matVars, cardVars, extVars>>

\* lines 331-339: load the three tables, merge apps with the website text
LoadTables ==
    /\ pc = "start"
    /\ df' = merge_left(apps_csv, _load_web(web_csv))
    /\ reviews' = _load_reviews(reviews_csv)
    /\ rows' = <<>>
    /\ idx' = 1
    /\ pc' = "loop"
    /\ UNCHANGED <<feature, apps_csv, web_csv, reviews_csv, out_csv>>
    /\ UNCHANGED <<confVars, matVars, cardVars, extVars>>

\* lines 340-359: one iteration of the loop over df
LoopRow ==
    /\ pc = "loop"
    /\ idx <= Len(df)
    /\ rows' = rows \o detect_row(df[idx], reviews, COMPILED_PATTERNS[feature])
    /\ idx' = idx + 1
    /\ UNCHANGED <<feature, apps_csv, web_csv, reviews_csv, df, reviews, out_csv, pc>>
    /\ UNCHANGED <<confVars, matVars, cardVars, extVars>>

\* lines 361-368: sort and write the per-feature CSV
WriteOut ==
    /\ pc = "loop"
    /\ idx > Len(df)
    /\ out_csv' = sort_values(rows)
    /\ pc' = "done"
    /\ UNCHANGED <<feature, apps_csv, web_csv, reviews_csv, df, reviews, idx, rows>>
    /\ UNCHANGED <<confVars, matVars, cardVars, extVars>>

NextFlags == LoadTables \/ LoopRow \/ WriteOut

StartFlags ==
    /\ df = <<>> /\ reviews = <<>> /\ idx = 0 /\ rows = <<>> /\ out_csv = <<>>
    /\ pc = "start"
    /\ IdleConf /\ IdleMat /\ IdleCards /\ IdleExt

K1 == "play:a"
K2 == "ios:id1"

App(key, title, description) ==
    [app_key |-> key, store |-> "play", title |-> title, description |-> description,
     category |-> Str("Productivity"), developer |-> NaN]

-----------------------------------------------------------------------------
(* What the labels are about, stated on the input tables *)

Pats == COMPILED_PATTERNS[feature]

\* some matcher of the feature matches somewhere in the lower-cased text t
Fires(t) == \E k \in 1..Len(Pats) : search(Pats[k], t)

\* a cell is text in which some matcher fires, case ignored
CellFires(v) == IsStr(v) /\ Fires(lower(v.s))

\* the text of a review: body and title, lower-cased, joined by a blank
ReviewText(r) == strip(lower(FillStr(r.body)) \o " " \o lower(FillStr(r.title)))

\* the reviews of app key in which at least one matcher fires
MatchingReviews(key) ==
    {i \in KeyIdx(reviews_csv, key) : Fires(ReviewText(reviews_csv[i]))}

\* a source of the app row matched: title, description, metadata, or the
\* website text of some website row of the app
MetaText(app) == PyStr(app.category) \o " " \o PyStr(app.developer)
SourceMatched(app) ==
    \/ CellFires(app.title)
    \/ CellFires(app.description)
    \/ Fires(lower(MetaText(app)))
    \/ \E j \in KeyIdx(web_csv, app.app_key) : CellFires(web_csv[j].website_text)

AppFlagged(app) ==
    SourceMatched(app) \/ Cardinality(MatchingReviews(app.app_key)) >= 25

OutRows(key) == {j \in 1..Len(out_csv) : out_csv[j].app_key = key}

-----------------------------------------------------------------------------
(* SpecFlags: detect_feature over app tables with unique keys, website     *)
(* tables that may repeat a key, and review tables of 0..MaxReviews        *)
(* matching reviews of the first app.                                      *)

HitReview == [app_key |-> K1, body |-> Str("Blocker pomo"), title |-> NaN]

WebRowKinds ==
    { [app_key |-> K1, website_text |-> Str("App blocker with pomo cycles")],
      [app_key |-> K1, website_text |-> NaN],
      [app_key |-> K2, website_text |-> Str("Focus better")] }

InitFlags ==
    /\ feature \in Features
    /\ \E t \in {Str("Pomo Site Blocker"), Str("blockchain"), NaN} :
          apps_csv = << App(K1, t, NaN), App(K2, Str("Notes"), Str("Plain notes")) >>
    /\ web_csv \in SeqsUpTo(WebRowKinds, MaxWebRows)
    /\ \E n \in 0..MaxReviews : reviews_csv = Rep(n, HitReview)
    /\ StartFlags

SpecFlags == InitFlags /\ [][NextFlags]_vars

\* C2: a row is written for an app iff the app is flagged (some source matched,
\* or no source matched and at least 25 reviews match); with no source, 24
\* matching reviews give no row and 25 give a row of confidence 0.55; no
\* written row has confidence 0.00.
C2_RowIffFlagged ==
    pc = "done" =>
        /\ \A i \in 1..Len(apps_csv) :
              LET app == apps_csv[i]
                  n   == Cardinality(MatchingReviews(app.app_key))
              IN  /\ (OutRows(app.app_key) # {}) <=> AppFlagged(app)
                  /\ (~SourceMatched(app) /\ n = 24) => OutRows(app.app_key) = {}
                  /\ (~SourceMatched(app) /\ n = 25) =>
                        /\ OutRows(app.app_key) # {}
                        /\ \A j \in OutRows(app.app_key) : out_csv[j].confidence = 55
        /\ \A j \in 1..Len(out_csv) : out_csv[j].confidence > 0

\* the reviews-only app at the boundary: no source, 25 matching reviews
C2_Witness ==
    /\ pc = "done"
    /\ ~SourceMatched(apps_csv[1])
    /\ Cardinality(MatchingReviews(K1)) = 25
    /\ \E j \in OutRows(K1) : out_csv[j].confidence = 55 /\ out_csv[j].signals = "reviews"

\* C4: in the per-feature output no app_key of the app table appears in more
\* than one row, whatever the website-text table holds.
C4_OneRowPerApp ==
    pc = "done" =>
        \A i \in 1..Len(apps_csv) : Cardinality(OutRows(apps_csv[i].app_key)) <= 1

-----------------------------------------------------------------------------
(* SpecHits: detect_feature over short review tables mixing reviews that   *)
(* several matchers hit, reviews without text, and another app's reviews.  *)
(* Both apps match by title, so every app gets a row carrying its count.   *)

ReviewKinds ==
    { [app_key |-> K1, body |-> Str("Blocker, site blocker, app blocker. Pomodoro pomo"),
                       title |-> Str("Block")],
      [app_key |-> K1, body |-> NaN, title |-> NaN],
      [app_key |-> K1, body |-> Num(25), title |-> NaN],
      [app_key |-> K1, body |-> Num(25), title |-> Str("Min")],
      [app_key |-> K1, body |-> Str("Love it"), title |-> Str("Whitelist")],
      [app_key |-> K2, body |-> Str("short break"), title |-> Str("site")] }

InitHits ==
    /\ feature \in Features
    /\ apps_csv = << App(K1, Str("Pomodoro Blocker"), NaN),
                     App(K2, Str("Blocker with Pomodoro"), NaN) >>
    /\ web_csv = <<>>
    /\ reviews_csv \in SeqsUpTo(ReviewKinds, MaxVaried)
    /\ StartFlags

SpecHits == InitHits /\ [][NextFlags]_vars

HasText(r) == IsStr(r.body) \/ IsStr(r.title)

\* C5: the review hit count of an app is the number of its reviews in which at
\* least one matcher fires (a review counts once), a review without any text
\* adds 0, an app without reviews gets 0, and the count never exceeds the
\* number of the app's reviews.
C5_HitsCountReviews ==
    pc = "done" =>
        /\ \A i \in 1..Len(apps_csv) : OutRows(apps_csv[i].app_key) # {}
        /\ \A j \in 1..Len(out_csv) :
              LET key == out_csv[j].app_key
                  own == KeyIdx(reviews_csv, key)
              IN  /\ out_csv[j].review_hits = Cardinality(MatchingReviews(key))
                  /\ out_csv[j].review_hits <= Cardinality(own)
                  /\ out_csv[j].review_hits
                        <= Cardinality({i \in own : HasText(reviews_csv[i])})
                  /\ own = {} => out_csv[j].review_hits = 0

\* a review hit by several matchers several times next to a review without
\* text: the app's count is 1
C5_Witness ==
    /\ pc = "done"
    /\ feature = "blocking"
    /\ Cardinality(KeyIdx(reviews_csv, K1)) = 2
    /\ \E i \in KeyIdx(reviews_csv, K1) :
          Cardinality({k \in 1..Len(Pats) : search(Pats[k], ReviewText(reviews_csv[i]))}) >= 2
    /\ \E i \in KeyIdx(reviews_csv, K1) : ~HasText(reviews_csv[i])
    /\ \E j \in OutRows(K1) : out_csv[j].review_hits = 1

-----------------------------------------------------------------------------
(* SpecMatch: detect_feature over single-app tables whose title varies.    *)

Titles ==
    { Str("blockchain"), Str("site blocker"), Str("Site Blocker"),
      Str("SITE BLOCKER Pro"), Str("My site blocker app"), Str("unblock me"),
      Str("Blockchain wallet"), Str("Pomodoro"), Str("25 Min Focus"),
      Str("nuclear  option"), Str(""), NaN }

InitMatch ==
    /\ feature \in Features
    /\ \E t \in Titles :
       \E d \in {NaN, Str("Keeps a blockchain ledger; no pomodoros")} :
          apps_csv = << App(K1, t, d) >>
    /\ web_csv = <<>>
    /\ reviews_csv = <<>>
    /\ StartFlags

SpecMatch == InitMatch /\ [][NextFlags]_vars

\* the substring sub occurs in t
Contains(t, sub) ==
    \E i \in 1..(Len(t) - Len(sub) + 1) : SubSeq(t, i, i + Len(sub) - 1) = sub

\* the written row of the app names the title as a source
TitleSignal ==
    \E j \in 1..Len(out_csv) :
        Len(out_csv[j].signals) >= 5 /\ SubSeq(out_csv[j].signals, 1, 5) = "title"

\* C6: with the shipped blocking patterns a title "blockchain" does not yield
\* the title source and a title containing "site blocker" does, in any letter
\* case; a title is a source iff any one matcher matches anywhere in it.
C6_WholeWord ==
    pc = "done" =>
        LET t == apps_csv[1].title
        IN  /\ (feature = "blocking" /\ IsStr(t) /\ lower(t.s) = "blockchain")
                  => ~TitleSignal /\ out_csv = <<>>
            /\ (feature = "blocking" /\ IsStr(t) /\ Contains(lower(t.s), "site blocker"))
                  => TitleSignal
            /\ TitleSignal <=> CellFires(t)

\* an upper-case title containing the phrase is flagged from the title
C6_Witness ==
    /\ pc = "done"
    /\ feature = "blocking"
    /\ apps_csv[1].title = Str("SITE BLOCKER Pro")
    /\ TitleSignal
    /\ out_csv[1].confidence = 60

-----------------------------------------------------------------------------
(* build_feature_matrix: load_feature_long *)

\* the sequence of the strings of S in ascending order
RECURSIVE SortStrings(_)
SortStrings(S) ==
    IF S = {} THEN <<>>
    ELSE LET m == CHOOSE x \in S : \A y \in S \ {x} : StrLess(x, y)
         IN  <<m>> \o SortStrings(S \ {m})

FEATURE_PREFIX == "features_"
FEATURE_EXCLUDES ==
    { "features_matrix_flags.csv", "features_matrix_confidence.csv",
      "features_matrix_review_hits.csv", "features_long.csv", "features_bundle.csv" }

StartsWith(t, pre) == Len(t) >= Len(pre) /\ SubSeq(t, 1, Len(pre)) = pre
EndsWith(t, suf) == Len(t) >= Len(suf) /\ SubSeq(t, Len(t) - Len(suf) + 1, Len(t)) = suf

\* sorted(in_dir.glob("features_*.csv")) without the excluded names
find_feature_files(dir) ==
    LET names == {f.name : f \in dir}
        globd == {nm \in names : StartsWith(nm, FEATURE_PREFIX) /\ EndsWith(nm, ".csv")}
    IN  SortStrings(globd \ FEATURE_EXCLUDES)

\* name.rsplit(".", 1)[0], then re.sub(r"^features_", "", base)
LastDot(nm) ==
    LET dots == {i \in 1..Len(nm) : At(nm, i) = "."}
    IN  IF dots = {} THEN 0 ELSE CHOOSE i \in dots : \A j \in dots : j <= i
feature_name_from_filename(nm) ==
    LET d    == LastDot(nm)
        base == IF d = 0 THEN nm ELSE SubSeq(nm, 1, d - 1)
    IN  IF StartsWith(base, "features_") THEN SubSeq(base, 10, Len(base)) ELSE base

\* pd.to_numeric(col, errors="coerce").fillna(0)
ToNum(v) == IF v.kind = "num" THEN v.n ELSE 0

File(dir, nm) == CHOOSE f \in dir : f.name = nm

\* the rows one file contributes: lines 39-66
file_rows(f, mc, mh) ==
    LET feat == feature_name_from_filename(f.name)
    IN  [i \in 1..Len(f.rows) |->
            LET c == ToNum(f.rows[i].confidence)
                h == ToNum(f.rows[i].review_hits)
            IN  [app_key     |-> f.rows[i].app_key,
                 feature     |-> feat,
                 flag        |-> IF f.has_flag THEN ToNum(f.rows[i].flag)
                                 ELSE IF c >= mc /\ h >= mh THEN 1 ELSE 0,
                 confidence  |-> c,
                 review_hits |-> h]]

\* pd.concat of the per-file frames, skipping a file without app_key
RECURSIVE ConcatFiles(_, _, _, _, _)
ConcatFiles(dir, files, k, mc, mh) ==
    IF k > Len(files) THEN <<>>
    ELSE LET f == File(dir, files[k])
         IN  (IF f.has_key THEN file_rows(f, mc, mh) ELSE <<>>)
             \o ConcatFiles(dir, files, k + 1, mc, mh)

SamePair(a, b) == a.app_key = b.app_key /\ a.feature = b.feature

\* drop_duplicates(["app_key", "feature"], keep="last")
drop_duplicates_last(t) ==
    SelectIdx(t, {i \in 1..Len(t) : ~\E j \in (i + 1)..Len(t) : SamePair(t[i], t[j])}, 1)

\* the files that get past the app_key test
KeyedFiles(dir) == {nm \in SetOf(find_feature_files(dir)) : File(dir, nm).has_key}

\* load_feature_long: [ok, rows]; not ok when it raises (no feature file, or
\* nothing to concatenate)
load_feature_long(dir, mc, mh) ==
    LET files == find_feature_files(dir)
    IN  IF files = <<>> \/ KeyedFiles(dir) = {}
        THEN [ok |-> FALSE, rows |-> <<>>]
        ELSE [ok |-> TRUE, rows |-> drop_duplicates_last(ConcatFiles(dir, files, 1, mc, mh))]

-----------------------------------------------------------------------------
(* build_feature_matrix: write_matrices *)

RECURSIVE SumOver(_, _)
SumOver(S, f) ==
    IF S = {} THEN 0
    ELSE LET x == CHOOSE y \in S : TRUE IN f[x] + SumOver(S \ {x}, f)

MaxOver(S, f) == f[CHOOSE x \in S : \A y \in S : f[y] <= f[x]]

\* long.pivot_table(index="app_key", columns="feature", values=col,
\*                  aggfunc=agg, fill_value=0).sort_index(axis=1)
pivot_table(long, col, agg) ==
    LET index   == SortStrings({long[i].app_key : i \in 1..Len(long)})
        columns == SortStrings({long[i].feature : i \in 1..Len(long)})
        val     == [i \in 1..Len(long) |-> long[i][col]]
        at(a, f) == {i \in 1..Len(long) : long[i].app_key = a /\ long[i].feature = f}
    IN  [index   |-> index,
         columns |-> columns,
         cell    |-> [p \in SetOf(index) \X SetOf(columns) |->
                        IF at(p[1], p[2]) = {} THEN 0
                        ELSE IF agg = "max" THEN MaxOver(at(p[1], p[2]), val)
                        ELSE SumOver(at(p[1], p[2]), val)]]

\* a presence matrix pivoted from the wrong value column
flags_matrix_mutant(long) == pivot_table(long, "confidence", "max")

flags_matrix(long) == pivot_table(long, "flag", "max")
conf_matrix(long)  == pivot_table(long, "confidence", "max")
hits_matrix(long)  == pivot_table(long, "review_hits", "sum")

-----------------------------------------------------------------------------
(* Averaged metrics: exact fractions *)

Q(n, d) == [kind |-> "q", num |-> n, den |-> d]
NaNQ    == [kind |-> "nan", num |-> 0, den |-> 1]

\* a equals the fraction n/d (d > 0)
QEquals(a, n, d) == a.kind = "q" /\ a.num * d = n * a.den

Metrics == <<"avg_rating", "mean_compound", "pct_positive", "pct_negative">>

\* Series.mean() of the column col over the rows g of table t: NaN skipped
series_mean(t, g, col) ==
    LET nums == {i \in g : t[i][col].kind = "num"}
        val  == [i \in 1..Len(t) |-> ToNum(t[i][col])]
    IN  IF nums = {} THEN NaNQ ELSE Q(SumOver(nums, val), Cardinality(nums))

\* the value of a cell as a fraction
RawQ(v) == IF v.kind = "num" THEN Q(v.n, 1) ELSE NaNQ

-----------------------------------------------------------------------------
(* build_feature_matrix: maybe_bundle *)

\* lines 119-122: groupby("app_key").agg(mean) of every value column
collapse_by_mean(t) ==
    LET keys == SortStrings({t[i].app_key : i \in 1..Len(t)})
    IN  [k \in 1..Len(keys) |->
            LET g == KeyIdx(t, keys[k])
            IN  [app_key       |-> keys[k],
                 avg_rating    |-> series_mean(t, g, "avg_rating"),
                 mean_compound |-> series_mean(t, g, "mean_compound"),
                 pct_positive  |-> series_mean(t, g, "pct_positive"),
                 pct_negative  |-> series_mean(t, g, "pct_negative"),
                 n_reviews     |-> series_mean(t, g, "n_reviews"),
                 n_nd          |-> series_mean(t, g, "n_nd")]]

\* the table as read, when it has no country column
as_read(t) ==
    [i \in 1..Len(t) |->
        [app_key       |-> t[i].app_key,
         avg_rating    |-> RawQ(t[i].avg_rating),
         mean_compound |-> RawQ(t[i].mean_compound),
         pct_positive  |-> RawQ(t[i].pct_positive),
         pct_negative  |-> RawQ(t[i].pct_negative),
         n_reviews     |-> RawQ(t[i].n_reviews),
         n_nd          |-> RawQ(t[i].n_nd)]]

\* drop_duplicates("app_key"): the first row of every key
first_per_key(t) ==
    SelectIdx(t, {i \in 1..Len(t) : ~\E j \in 1..(i - 1) : t[j].app_key = t[i].app_key}, 1)

\* lines 117-124: the sentiment table brought to one row per app_key
sentiment_per_app(sc) ==
    first_per_key(IF sc.has_country THEN collapse_by_mean(sc.rows) ELSE as_read(sc.rows))

NoSentiment ==
    [avg_rating |-> NaNQ, mean_compound |-> NaNQ, pct_positive |-> NaNQ,
     pct_negative |-> NaNQ, n_reviews |-> NaNQ, n_nd |-> NaNQ]

\* one row of bundle.merge(apps).merge(s), both how="left" on app_key
bundle_row(r, apps, s) ==
    LET a  == KeyIdx(apps, r.app_key)
        a1 == CHOOSE i \in a : \A j \in a : i <= j
        m  == KeyIdx(s, r.app_key)
        v  == IF m = {} THEN NoSentiment ELSE s[CHOOSE i \in m : TRUE]
    IN  [app_key       |-> r.app_key,
         feature       |-> r.feature,
         flag          |-> r.flag,
         confidence    |-> r.confidence,
         review_hits   |-> r.review_hits,
         store         |-> IF a = {} THEN NaN ELSE Str(apps[a1].store),
         title         |-> IF a = {} THEN NaN ELSE apps[a1].title,
         avg_rating    |-> v.avg_rating,
         mean_compound |-> v.mean_compound,
         pct_positive  |-> v.pct_positive,
         pct_negative  |-> v.pct_negative,
         n_reviews     |-> v.n_reviews,
         n_nd          |-> v.n_nd]

\* lines 111-115: the file given by --sent-csv, or out_dir/app_sentiment.csv
\* when that path is not given or does not exist
sent_path(sc, cand) == IF sc.exists THEN sc ELSE cand

\* a reader that also raises when the file is not there
read_raises_mutant(b_sent, sc) == b_sent /\ ~(sc.exists /\ sc.header)

\* line 117: pd.read_csv raises EmptyDataError on a file without a header line
read_raises(b_sent, sc) == b_sent /\ sc.exists /\ ~sc.header

NoBundle == [written |-> FALSE, app_cols |-> FALSE, sent_cols |-> FALSE, rows |-> <<>>]

\* maybe_bundle: the bundle file it leaves (columns of a merge that did not
\* happen are absent: app_cols / sent_cols say which exist)
maybe_bundle(long, b_apps, apps, b_sent, sc) ==
    IF ~(b_apps \/ b_sent) THEN NoBundle
    ELSE LET with_sent == b_sent /\ sc.exists
             s         == IF with_sent THEN sentiment_per_app(sc) ELSE <<>>
         IN  [written   |-> TRUE,
              app_cols  |-> b_apps,
              sent_cols |-> with_sent,
              rows      |-> [i \in 1..Len(long) |->
                               bundle_row(long[i], IF b_apps THEN apps ELSE <<>>, s)]]

-----------------------------------------------------------------------------
(* build_matrices as a state machine *)

\* line 137
LoadLong ==
    /\ mpc = "start"
    /\ LET r == load_feature_long(in_dir, min_conf, min_hits)
       IN  /\ long_df' = r.rows
           /\ mpc' = IF r.ok THEN "loaded" ELSE "failed"
    /\ UNCHANGED <<in_dir, min_conf, min_hits, sent_csv, matrices, bundle_apps,
                   bundle_sent, bundle>>
    /\ UNCHANGED <<confVars, flagVars, cardVars, extVars>>

\* line 138
WriteMatrices ==
    /\ mpc = "loaded"
    /\ matrices' = [flags       |-> flags_matrix(long_df),
                    confidence  |-> conf_matrix(long_df),
                    review_hits |-> hits_matrix(long_df),
                    long        |-> long_df]
    /\ mpc' = "written"
    /\ UNCHANGED <<in_dir, min_conf, min_hits, sent_csv, long_df, bundle_apps,
                   bundle_sent, bundle>>
    /\ UNCHANGED <<confVars, flagVars, cardVars, extVars>>

\* line 139
MaybeBundle ==
    /\ mpc = "written"
    /\ LET sc == sent_path(sent_csv, app_sentiment)
       IN  IF read_raises(bundle_sent, sc)
           THEN bundle' = bundle /\ mpc' = "failed"
           ELSE /\ bundle' = maybe_bundle(long_df, bundle_apps, apps_csv, bundle_sent, sc)
                /\ mpc' = "done"
    /\ UNCHANGED <<in_dir, min_conf, min_hits, sent_csv, long_df, matrices,
                   bundle_apps, bundle_sent>>
    /\ UNCHANGED <<confVars, flagVars, cardVars, extVars>>

NextMatrix == LoadLong \/ WriteMatrices \/ MaybeBundle

StartMatrix ==
    /\ long_df = <<>> /\ matrices = <<>> /\ bundle = NoBundle /\ mpc = "start"
    /\ feature = "blocking" /\ web_csv = <<>> /\ reviews_csv = <<>>
    /\ df = <<>> /\ reviews = <<>> /\ idx = 0 /\ rows = <<>> /\ out_csv = <<>>
    /\ pc = "idle"
    /\ apps_csv = << App(K1, Str("Pomo Site Blocker"), NaN),
                     App(K2, Str("Notes"), Str("Plain notes")) >>
    /\ IdleConf /\ IdleCards /\ IdleLater

-----------------------------------------------------------------------------
(* Input tables of the matrix builder *)

Label(key, c, h, fl) ==
    [app_key |-> key, confidence |-> Num(c), review_hits |-> Num(h), flag |-> Num(fl)]

LabelKinds == { Label(K1, 80, 7, 1), Label(K1, 60, 2, 0), Label(K2, 55, 30, 1) }

FeatureFile(nm, has_key, has_flag, rs) ==
    [name |-> nm, has_key |-> has_key, has_flag |-> has_flag, rows |-> rs]

\* features_long.csv of an earlier run, left in the same directory
OldLong == FeatureFile("features_long.csv", TRUE, TRUE, << Label(K2, 80, 1, 1) >>)

\* the default thresholds of build_feature_matrix and those refresh_all passes
Thresholds == { <<0, 0>>, <<60, 5>> }

SentRow(key, store, country, n, nd, rating, compound, pos, neg) ==
    [app_key |-> key, store |-> store, country |-> country,
     n_reviews |-> Num(n), n_nd |-> Num(nd), avg_rating |-> rating,
     mean_compound |-> Num(compound), pct_positive |-> Num(pos), pct_negative |-> Num(neg)]

\* country rows; avg_rating in tenths, the other metrics in hundredths
US10 == SentRow(K1, "play", "us", 10, 1, Num(10), -50, 20, 70)
GB0  == SentRow(K1, "play", "gb", 0, 0, Num(50), 0, 0, 0)
DE90 == SentRow(K1, "play", "de", 90, 3, Num(50), 80, 90, 5)
SentKinds ==
    { US10, GB0, DE90,
      SentRow(K2, "ios", "us", 0, 0, Num(30), 10, 50, 50),
      SentRow(K2, "ios", "de", 0, 0, Num(40), 30, 100, 0),
      SentRow(K2, "ios", "gb", 4, 0, NaN, 20, 100, 0) }

-----------------------------------------------------------------------------
(* SpecMatrix: build_matrices over directories of two per-feature files    *)
(* whose rows vary (a file may repeat an app_key), with or without a flag  *)
(* column, the second file with or without an app_key column.              *)

InitMatrix ==
    /\ \E schema \in {"plain", "flag", "nokey"} :
       \E r1 \in SeqsUpTo(LabelKinds, MaxFileRows) :
       \E r2 \in SeqsUpTo(LabelKinds, MaxFileRows) :
          in_dir = { FeatureFile("features_pomodoro.csv", schema # "nokey", schema = "flag", r2),
                     FeatureFile("features_blocking.csv", TRUE, schema = "flag", r1),
                     OldLong }
    /\ \E th \in Thresholds : min_conf = th[1] /\ min_hits = th[2]
    /\ sent_csv = SentFile(TRUE, TRUE, TRUE, << US10, DE90 >>)
    /\ bundle_apps = TRUE
    /\ bundle_sent = TRUE
    /\ IdleRerun
    /\ StartMatrix

SpecMatrix == InitMatrix /\ [][NextMatrix]_vars

Written == mpc \in {"written", "done"}

\* every label row of the input files, before load_feature_long drops any
AllLabelRows ==
    ConcatFiles(in_dir, find_feature_files(in_dir), 1, min_conf, min_hits)

PairRows(t, p) == {i \in 1..Len(t) : t[i].app_key = p[1] /\ t[i].feature = p[2]}

Ascending(seq) == \A i \in 1..Len(seq) : \A j \in (i + 1)..Len(seq) : StrLess(seq[i], seq[j])

\* C7: every cell of the three matrices is the max of flag, the max of
\* confidence and the sum of review_hits over all input label rows of its
\* (app_key, feature), 0 without such a row; feature columns ascend.
C7_MatrixAggregates ==
    Written =>
        LET all == AllLabelRows
            fl  == [i \in 1..Len(all) |-> all[i].flag]
            cf  == [i \in 1..Len(all) |-> all[i].confidence]
            rh  == [i \in 1..Len(all) |-> all[i].review_hits]
        IN  /\ \A p \in DOMAIN matrices.flags.cell :
                  LET at == PairRows(all, p)
                  IN  /\ matrices.flags.cell[p]
                            = (IF at = {} THEN 0 ELSE MaxOver(at, fl))
                      /\ matrices.confidence.cell[p]
                            = (IF at = {} THEN 0 ELSE MaxOver(at, cf))
                      /\ matrices.review_hits.cell[p]
                            = (IF at = {} THEN 0 ELSE SumOver(at, rh))
            /\ Ascending(matrices.flags.columns)
            /\ Ascending(matrices.confidence.columns)
            /\ Ascending(matrices.review_hits.columns)

\* the presence matrix flattened back to long form, zero cells dropped
NonZeroCells(m) == {p \in DOMAIN m.cell : m.cell[p] # 0}

FlaggedPairs(t) ==
    {<<t[i].app_key, t[i].feature>> : i \in {j \in 1..Len(t) : t[j].flag = 1}}

\* C8: the non-zero cells of the presence matrix are exactly the
\* (app_key, feature) pairs whose long-table row has flag = 1.
C8_RoundTrip == Written => NonZeroCells(matrices.flags) = FlaggedPairs(long_df)

\* a matrix with a flagged pair, an unflagged row and a filled-in cell
C8_Witness ==
    /\ Written
    /\ \E i \in 1..Len(long_df) : long_df[i].flag = 1
    /\ \E i \in 1..Len(long_df) : long_df[i].flag = 0 /\ long_df[i].confidence > 0
    /\ \E p \in DOMAIN matrices.flags.cell : PairRows(long_df, p) = {}

-----------------------------------------------------------------------------
(* SpecBundle: build_matrices over a fixed directory, with the bundle      *)
(* switches and the sentiment table varying.                               *)

InitBundle ==
    /\ in_dir = { FeatureFile("features_pomodoro.csv", TRUE, FALSE, << Label(K1, 80, 7, 1) >>),
                  FeatureFile("features_blocking.csv", TRUE, FALSE,
                              << Label(K1, 80, 7, 1), Label(K2, 55, 30, 1) >>),
                  OldLong }
    /\ min_conf = 0 /\ min_hits = 0
    /\ \/ sent_csv = NoFile
       \/ \E hc \in BOOLEAN : \E t \in SeqsUpTo(SentKinds, MaxSentRows) :
             sent_csv = SentFile(TRUE, TRUE, hc, t)
    /\ bundle_apps \in BOOLEAN
    /\ bundle_sent \in BOOLEAN
    /\ IdleRerun
    /\ StartMatrix

SpecBundle == InitBundle /\ [][NextMatrix]_vars

\* the sum over the rows g of table t of col, and of col weighted by n_reviews
ColSum(t, g, col) == SumOver(g, [i \in 1..Len(t) |-> ToNum(t[i][col])])
WeightedSum(t, g, col) ==
    SumOver(g, [i \in 1..Len(t) |-> ToNum(t[i][col]) * ToNum(t[i].n_reviews)])
AllNumeric(t, g, col) == \A i \in g : t[i][col].kind = "num"

\* row holds, for every averaged metric, the n_reviews-weighted mean of the
\* rows g of t
WeightedRow(row, t, g) ==
    \A k \in 1..Len(Metrics) :
        (AllNumeric(t, g, Metrics[k]) /\ ColSum(t, g, "n_reviews") > 0)
            => QEquals(row[Metrics[k]], WeightedSum(t, g, Metrics[k]),
                       ColSum(t, g, "n_reviews"))

\* C9: when the sentiment table holds several country rows of an app, the
\* bundle joins one row per app_key whose averaged metrics are the
\* n_reviews-weighted means of the country rows.
C9_BundleWeighted ==
    (mpc = "done" /\ bundle.written /\ bundle.sent_cols /\ sent_csv.has_country) =>
        /\ Len(bundle.rows) = Len(long_df)
        /\ \A i \in 1..Len(bundle.rows) :
              LET g == KeyIdx(sent_csv.rows, bundle.rows[i].app_key)
              IN  g # {} => WeightedRow(bundle.rows[i], sent_csv.rows, g)

-----------------------------------------------------------------------------
(* SpecMissing: build_matrices run twice over the same directory, first    *)
(* with the sentiment input as found (no file at all, a file at the        *)
(* default place only, or a filled file), then with an empty sentiment CSV *)
(* given by --sent-csv.                                                    *)

\* an empty sentiment CSV: a header line and no row, or no byte at all
EmptySentFiles ==
    { SentFile(TRUE, TRUE, TRUE, <<>>), SentFile(TRUE, TRUE, FALSE, <<>>),
      SentFile(TRUE, FALSE, FALSE, <<>>) }

\* main, lines 141-160, invoked a second time with --sent-csv naming an empty
\* file and a fresh --out-dir; what the first run left is remembered
RunAgain ==
    /\ mpc \in {"done", "failed"}
    /\ earlier = <<>>
    /\ earlier' = << [mpc      |-> mpc,
                      matrices |-> matrices,
                      bundle   |-> bundle,
                      sent     |-> sent_path(sent_csv, app_sentiment)] >>
    /\ sent_csv' \in EmptySentFiles
    /\ long_df' = <<>> /\ matrices' = <<>> /\ bundle' = NoBundle /\ mpc' = "start"
    /\ UNCHANGED <<in_dir, min_conf, min_hits, bundle_apps, bundle_sent, app_sentiment>>
    /\ UNCHANGED <<confVars, flagVars, cardVars, laterVars>>

NextRerun == LoadLong \/ WriteMatrices \/ MaybeBundle \/ RunAgain

InitMissing ==
    /\ \E r1 \in SeqsUpTo(LabelKinds, 1) :
          in_dir \in { { FeatureFile("features_blocking.csv", TRUE, FALSE, r1),
                         FeatureFile("features_pomodoro.csv", TRUE, FALSE,
                                     << Label(K2, 55, 30, 1) >>) },
                       { OldLong } }
    /\ \E th \in Thresholds : min_conf = th[1] /\ min_hits = th[2]
    /\ sent_csv \in {NoFile, SentFile(TRUE, TRUE, TRUE, << US10, DE90 >>)}
    /\ app_sentiment \in {NoFile, SentFile(TRUE, TRUE, FALSE, << GB0 >>)}
    /\ bundle_apps \in BOOLEAN
    /\ bundle_sent \in BOOLEAN
    /\ earlier = <<>>
    /\ StartMatrix

SpecMissing == InitMissing /\ [][NextRerun]_vars

\* C11: a run that asks for a bundle and finds no sentiment CSV (neither the
\* given path nor the default one) ends without error whenever the label
\* files load, and its bundle has one row per long-table row and no sentiment
\* column; the three matrices and the long table of a run equal those of a
\* run over the same directory given an empty sentiment CSV, whatever the
\* first run's sentiment input was.
C11_MissingSentiment ==
    earlier # <<>> =>
        LET e == earlier[1]
        IN  /\ ~e.sent.exists =>
                  /\ e.mpc = "done" <=> load_feature_long(in_dir, min_conf, min_hits).ok
                  /\ (e.mpc = "done" /\ (bundle_apps \/ bundle_sent)) =>
                        /\ e.bundle.written
                        /\ ~e.bundle.sent_cols
                        /\ Len(e.bundle.rows) = Len(e.matrices.long)
            /\ mpc \in {"written", "done", "failed"} => matrices = e.matrices

\* a first run without any sentiment file wrote a bundle without sentiment
\* columns; the second run, given a header-only file, wrote the same matrices
\* and a bundle with them
C11_Witness ==
    /\ earlier # <<>>
    /\ ~earlier[1].sent.exists
    /\ bundle_sent
    /\ earlier[1].mpc = "done"
    /\ earlier[1].bundle.written /\ ~earlier[1].bundle.sent_cols
    /\ mpc = "done"
    /\ bundle.sent_cols
    /\ matrices = earlier[1].matrices
    /\ Len(matrices.long) >= 2

-----------------------------------------------------------------------------
(* build_app_cards: _weighted_mean and _aggregate_sentiment *)

\* the plain mean of the series, whatever the weights
_weighted_mean_mutant(t, g, col) ==
    IF g = {} THEN Q(0, 1) ELSE Q(ColSum(t, g, col), Cardinality(g))

\* _weighted_mean(series, weights), the series being column col of the rows
\* g of t and the weights their n_reviews; NaN counts as 0 on both sides
_weighted_mean(t, g, col) ==
    LET ws == ColSum(t, g, "n_reviews")
    IN  IF ws <= 0
        THEN (IF g = {} THEN Q(0, 1) ELSE Q(ColSum(t, g, col), Cardinality(g)))
        ELSE Q(WeightedSum(t, g, col), ws)

\* (app_key, store) group keys in groupby order: by app_key, then by store
GroupBefore(a, b) == StrLess(a[1], b[1]) \/ (a[1] = b[1] /\ StrLess(a[2], b[2]))
RECURSIVE SortGroups(_)
SortGroups(S) ==
    IF S = {} THEN <<>>
    ELSE LET m == CHOOSE x \in S : \A y \in S \ {x} : GroupBefore(x, y)
         IN  <<m>> \o SortGroups(S \ {m})

GroupIdx(t, key) == {i \in 1..Len(t) : <<t[i].app_key, t[i].store>> = key}

_aggregate_sentiment(t) ==
    LET keys == SortGroups({<<t[i].app_key, t[i].store>> : i \in 1..Len(t)})
    IN  [k \in 1..Len(keys) |->
            LET g == GroupIdx(t, keys[k])
            IN  [app_key       |-> keys[k][1],
                 store         |-> keys[k][2],
                 n_reviews     |-> ColSum(t, g, "n_reviews"),
                 n_nd          |-> ColSum(t, g, "n_nd"),
                 avg_rating    |-> _weighted_mean(t, g, "avg_rating"),
                 mean_compound |-> _weighted_mean(t, g, "mean_compound"),
                 pct_positive  |-> _weighted_mean(t, g, "pct_positive"),
                 pct_negative  |-> _weighted_mean(t, g, "pct_negative")]]

\* build_app_cards.main, lines 84-86: read the table, aggregate if not empty
Aggregate ==
    /\ cpc = "start"
    /\ sent_agg' = IF sent = <<>> THEN <<>> ELSE _aggregate_sentiment(sent)
    /\ cpc' = "done"
    /\ UNCHANGED <<sent, confVars, flagVars, matVars, extVars>>

NextCards == Aggregate

InitCards ==
    /\ sent \in SeqsUpTo(SentKinds, MaxSentRows)
    /\ sent_agg = <<>>
    /\ cpc = "start"
    /\ IdleConf /\ IdleFlags /\ IdleMat /\ IdleExt

SpecCards == InitCards /\ [][NextCards]_vars

\* C10: _aggregate_sentiment leaves one row per (app_key, store) with
\* n_reviews and n_nd summed and every averaged metric equal to
\* sum(value * n_reviews) / sum(n_reviews), or to the plain mean of the rows
\* when the total weight is 0; counts {10, 0, 90} with ratings {1.0, 5.0, 5.0}
\* give 4.6, not 3.67.
C10_WeightedCollapse ==
    cpc = "done" =>
        /\ \A i \in 1..Len(sent) :
              Cardinality({k \in 1..Len(sent_agg) :
                  sent_agg[k].app_key = sent[i].app_key
                  /\ sent_agg[k].store = sent[i].store}) = 1
        /\ \A k \in 1..Len(sent_agg) :
              LET g == GroupIdx(sent, <<sent_agg[k].app_key, sent_agg[k].store>>)
                  n == ColSum(sent, g, "n_reviews")
              IN  /\ g # {}
                  /\ sent_agg[k].n_reviews = n
                  /\ sent_agg[k].n_nd = ColSum(sent, g, "n_nd")
                  /\ WeightedRow(sent_agg[k], sent, g)
                  /\ \A m \in 1..Len(Metrics) :
                        (n = 0 /\ AllNumeric(sent, g, Metrics[m])) =>
                            QEquals(sent_agg[k][Metrics[m]],
                                    ColSum(sent, g, Metrics[m]), Cardinality(g))
                  /\ (SetOf(sent) = {US10, GB0, DE90} /\ Len(sent) = 3) =>
                        /\ QEquals(sent_agg[k].avg_rating, 46, 1)
                        /\ ~QEquals(sent_agg[k].avg_rating, 110, 3)

\* the three synthetic country rows collapsed to 4.6 (4600/100 tenths)
C10_Witness ==
    /\ cpc = "done"
    /\ sent = << US10, GB0, DE90 >>
    /\ Len(sent_agg) = 1
    /\ sent_agg[1].n_reviews = 100
    /\ QEquals(sent_agg[1].avg_rating, 4600, 100)

-----------------------------------------------------------------------------
(* llm/irr: pairwise agreement between raters *)

\* (app_key, feature) index entries in pivot order
PairBefore(a, b) == StrLess(a[1], b[1]) \/ (a[1] = b[1] /\ StrLess(a[2], b[2]))
RECURSIVE SortPairs(_)
SortPairs(S) ==
    IF S = {} THEN <<>>
    ELSE LET m == CHOOSE x \in S : \A y \in S \ {x} : PairBefore(x, y)
         IN  <<m>> \o SortPairs(S \ {m})

\* line 24: df.pivot_table(index=["app_key","feature"], columns="model",
\*          values="present", aggfunc="max").fillna(0).astype(int)
irr_pivot(t) ==
    LET index   == SortPairs({<<t[i].app_key, t[i].feature>> : i \in 1..Len(t)})
        columns == SortStrings({t[i].model : i \in 1..Len(t)})
        val     == [i \in 1..Len(t) |-> t[i].present]
        at(p, m) == {i \in 1..Len(t) : <<t[i].app_key, t[i].feature>> = p /\ t[i].model = m}
    IN  [index   |-> index,
         columns |-> columns,
         cell    |-> [c \in SetOf(index) \X SetOf(columns) |->
                        IF at(c[1], c[2]) = {} THEN 0 ELSE MaxOver(at(c[1], c[2]), val)]]

\* line 37: h.pivot_table(index=["app_key","feature"], values="present", aggfunc="max")
human_pivot(h) ==
    LET index == {<<h[i].app_key, h[i].feature>> : i \in 1..Len(h)}
        val   == [i \in 1..Len(h) |-> h[i].present]
    IN  [p \in index |->
            MaxOver({i \in 1..Len(h) : <<h[i].app_key, h[i].feature>> = p}, val)]

\* round(x, 3) of the fraction num/den (den > 0), in thousandths
round3(num, den) ==
    LET x == 1000 * num
        q == x \div den
        r == x % den
    IN  IF 2 * r < den THEN q
        ELSE IF 2 * r > den THEN q + 1
        ELSE IF q % 2 = 0 THEN q ELSE q + 1

\* round(float(cohen_kappa_score(y1, y2)), 3) of two 0/1 label vectors given
\* over the items S: (po - pe) / (1 - pe), NaN when both vectors hold one and
\* the same label throughout
cohen_kappa_score(S, y1, y2) ==
    LET n     == Cardinality(S)
        agree == Cardinality({p \in S : y1[p] = y2[p]})
        a1    == Cardinality({p \in S : y1[p] = 1})
        b1    == Cardinality({p \in S : y2[p] = 1})
        e     == a1 * b1 + (n - a1) * (n - b1)
    IN  IF n * n = e THEN NaN ELSE Num(round3(n * agree - e, n * n - e))

AgreementRow(a, b, kappa, n) == [rater_a |-> a, rater_b |-> b, kappa |-> kappa, n |-> n]

\* lines 27-32: one row per pair of pivot columns, over every pivot row
RECURSIVE model_pairs(_, _, _)
model_pairs(piv, i, j) ==
    LET models == piv.columns
    IN  IF i > Len(models) THEN <<>>
        ELSE IF j > Len(models) THEN model_pairs(piv, i + 1, i + 2)
        ELSE LET S  == SetOf(piv.index)
                 ya == [p \in S |-> piv.cell[<<p, models[i]>>]]
                 yb == [p \in S |-> piv.cell[<<p, models[j]>>]]
             IN  << AgreementRow(models[i], models[j],
                                 cohen_kappa_score(S, ya, yb), Len(piv.index)) >>
                 \o model_pairs(piv, i, j + 1)

\* lines 38-42: every model against the human labels, over the inner join
RECURSIVE human_pairs(_, _, _)
human_pairs(piv, hv, k) ==
    LET models == piv.columns
    IN  IF k > Len(models) THEN <<>>
        ELSE LET joined == SetOf(piv.index) \cap DOMAIN hv
                 ym     == [p \in joined |-> piv.cell[<<p, models[k]>>]]
                 yh     == [p \in joined |-> hv[p]]
             IN  (IF joined = {} THEN <<>>
                  ELSE << AgreementRow(models[k], "human",
                                       cohen_kappa_score(joined, ym, yh),
                                       Cardinality(joined)) >>)
                 \o human_pairs(piv, hv, k + 1)

\* lines 23-42: the rows list
irr_rows(t, human) ==
    LET piv == irr_pivot(t)
    IN  (IF Len(piv.columns) >= 2 THEN model_pairs(piv, 1, 2) ELSE <<>>)
        \o (IF human.exists THEN human_pairs(piv, human_pivot(human.rows), 1) ELSE <<>>)

NoIrrOut == [written |-> FALSE, rows |-> <<>>]

\* main, lines 6-50
IrrMain ==
    /\ ipc = "start"
    /\ IF ~irr_in.exists \/ ~irr_in.cols_ok
       THEN irr_out' = irr_out /\ ipc' = "skipped"
       ELSE LET rs == irr_rows(irr_in.rows, human_csv)
            IN  IF rs = <<>>
                THEN irr_out' = irr_out /\ ipc' = "nopairs"
                ELSE irr_out' = [written |-> TRUE, rows |-> rs] /\ ipc' = "wrote"
    /\ UNCHANGED <<irr_in, human_csv>>
    /\ UNCHANGED exceptIrr

NextIrr == IrrMain

\* one label: rater model says present (0/1) for (app_key, feature)
LlmLabel(key, f, present, model) ==
    [app_key |-> key, feature |-> f, present |-> present, model |-> model]

MaxIrrRows == 3     \* most label rows of features_llm.csv

IrrRowKinds ==
    { LlmLabel(k, "blocking", pr, m) : k \in {K1, K2}, pr \in {0, 1}, m \in {"openai", "gemini"} }
    \cup { LlmLabel(K1, "blocking", 1, "local") }

HumanFiles ==
    { [exists |-> FALSE, rows |-> <<>>],
      [exists |-> TRUE, rows |-> <<>>],
      [exists |-> TRUE, rows |-> << [app_key |-> K1, feature |-> "blocking", present |-> 1] >>],
      [exists |-> TRUE, rows |-> << [app_key |-> K1, feature |-> "blocking", present |-> 1],
                                    [app_key |-> K2, feature |-> "blocking", present |-> 0] >>] }

InitIrr ==
    /\ \/ irr_in = [exists |-> FALSE, cols_ok |-> FALSE, rows |-> <<>>]
       \/ \E ok \in BOOLEAN : \E t \in SeqsUpTo(IrrRowKinds, MaxIrrRows) :
             irr_in = [exists |-> TRUE, cols_ok |-> ok, rows |-> t]
    /\ human_csv \in HumanFiles
    /\ irr_out = NoIrrOut
    /\ ipc = "start"
    /\ IdleButIrr

SpecIrr == InitIrr /\ [][NextIrr]_vars

\* the raters of the label table, the pairs a rater labeled, and its label
Raters(t) == {t[i].model : i \in 1..Len(t)}
LabeledBy(t, m) == {<<t[i].app_key, t[i].feature>> : i \in {j \in 1..Len(t) : t[j].model = m}}
LabelOf(t, m) ==
    [p \in LabeledBy(t, m) |->
        MaxOver({i \in 1..Len(t) : t[i].model = m /\ <<t[i].app_key, t[i].feature>> = p},
                [i \in 1..Len(t) |-> t[i].present])]
IrrRan == ipc \in {"nopairs", "wrote"}
RowsOf(a, b) ==
    {k \in 1..Len(irr_out.rows) :
        {irr_out.rows[k].rater_a, irr_out.rows[k].rater_b} = {a, b}}

\* C12: for every two raters of the label table there is exactly one
\* agreement row; its n is the number of (app_key, feature) pairs both
\* labeled and its kappa is the statistic of their labels on those pairs.
C12_PairwiseOverlap ==
    IrrRan =>
        \A a \in Raters(irr_in.rows) : \A b \in Raters(irr_in.rows) \ {a} :
            LET both == LabeledBy(irr_in.rows, a) \cap LabeledBy(irr_in.rows, b)
                la   == LabelOf(irr_in.rows, a)
                lb   == LabelOf(irr_in.rows, b)
            IN  /\ Cardinality(RowsOf(a, b)) = 1
                /\ \A k \in RowsOf(a, b) :
                      /\ irr_out.rows[k].n = Cardinality(both)
                      /\ irr_out.rows[k].kappa = cohen_kappa_score(both, la, lb)

\* the pairs a rater of an agreement row labeled ("human": the --human file)
LabeledByRater(r) ==
    IF r = "human"
    THEN {<<human_csv.rows[i].app_key, human_csv.rows[i].feature>> : i \in 1..Len(human_csv.rows)}
    ELSE LabeledBy(irr_in.rows, r)

\* C13: irr returns normally; with fewer than two raters it emits no
\* agreement row, and it emits no row for two raters that share no labeled
\* (app_key, feature) pair.
C13_DegenerateSkipped ==
    ipc # "start" =>
        /\ ipc \in {"skipped", "nopairs", "wrote"}
        /\ (IrrRan /\ Cardinality(Raters(irr_in.rows)) < 2 /\ ~human_csv.exists)
              => (ipc = "nopairs" /\ irr_out.rows = <<>>)
        /\ \A k \in 1..Len(irr_out.rows) :
              LabeledByRater(irr_out.rows[k].rater_a)
                  \cap LabeledByRater(irr_out.rows[k].rater_b) # {}

-----------------------------------------------------------------------------
(* etl/flatten_features: one row per feature of every LLM answer.          *)
(* The JSON blob of a row is given parsed: kind "none" (no blob, or not    *)
(* JSON), "list" (a bare list), or "dict" with its list under key          *)
(* "features" / "items" / neither and an optional global "support"; a list *)
(* item is a string or a dict with a name and an optional support.         *)

\* re.sub(r"\s+", " ", s)
RECURSIVE collapse_ws(_, _)
collapse_ws(t, i) ==
    IF i > Len(t) THEN ""
    ELSE IF IsSpace(At(t, i))
         THEN (IF i > 1 /\ IsSpace(At(t, i - 1)) THEN "" ELSE " ") \o collapse_ws(t, i + 1)
         ELSE At(t, i) \o collapse_ws(t, i + 1)

norm_feat(t) == collapse_ws(lower(strip(t)), 1)

ItemStr(name) == [kind |-> "str", name |-> name, support |-> ""]
ItemDict(name, support) == [kind |-> "dict", name |-> name, support |-> support]

JsonNone == [kind |-> "none", key |-> "", items |-> <<>>, support |-> ""]
JsonList(items) == [kind |-> "list", key |-> "", items |-> items, support |-> ""]
JsonDict(key, items, support) ==
    [kind |-> "dict", key |-> key, items |-> items, support |-> support]

\* the names of a list of items: a string stripped, a dict by its name when
\* it has one; empty names dropped
RECURSIVE item_names(_, _)
item_names(items, i) ==
    IF i > Len(items) THEN <<>>
    ELSE LET it == items[i]
             nm == IF it.kind = "dict" /\ it.name = "" THEN "" ELSE strip(it.name)
         IN  (IF nm = "" THEN <<>> ELSE <<nm>>) \o item_names(items, i + 1)

collect_features(obj) ==
    CASE obj.kind = "list" -> item_names(obj.items, 1)
      [] obj.kind = "dict" /\ obj.key \in {"features", "items"} -> item_names(obj.items, 1)
      [] OTHER -> <<>>

\* collect_support_map(obj).get(f_norm): the support given inline with the
\* last entry of the "features" list of that normalized name
inline_support(obj, f_norm) ==
    LET hits == {i \in 1..Len(obj.items) :
                    /\ obj.items[i].kind = "dict"
                    /\ obj.items[i].name # "" /\ obj.items[i].support # ""
                    /\ strip(obj.items[i].name) # ""
                    /\ norm_feat(obj.items[i].name) = f_norm}
    IN  IF obj.kind = "dict" /\ obj.key = "features" /\ hits # {}
        THEN LET l == CHOOSE i \in hits : \A j \in hits : j <= i
                 s == strip(obj.items[l].support)
             IN  IF s = "" THEN "neutral" ELSE s
        ELSE ""

\* lines 166-168
support_of(obj, f_norm) ==
    LET sup == inline_support(obj, f_norm)
    IN  IF sup # "" THEN sup
        ELSE IF obj.kind = "dict" /\ obj.support # "" THEN strip(obj.support)
        ELSE "neutral"

FlatRow(r, f, f_norm, sup) ==
    [app_key |-> r.app_key, title |-> r.title, vendor |-> r.vendor, model |-> r.model,
     feature |-> f, feature_norm |-> f_norm, support |-> sup]

parse_row(r) ==
    IF r.obj.kind = "none" THEN <<>>
    ELSE LET features == collect_features(r.obj)
         IN  IF features = <<>> THEN << FlatRow(r, "", "", "neutral") >>
             ELSE [k \in 1..Len(features) |->
                      FlatRow(r, features[k], norm_feat(features[k]),
                              support_of(r.obj, norm_feat(features[k])))]

\* lines 195-197
RECURSIVE parse_all(_, _)
parse_all(t, i) == IF i > Len(t) THEN <<>> ELSE parse_row(t[i]) \o parse_all(t, i + 1)

\* drop_duplicates(["app_key", "feature_norm"]): the first row of every pair
drop_duplicates_flat(t) ==
    SelectIdx(t, {i \in 1..Len(t) : ~\E j \in 1..(i - 1) :
                     t[j].app_key = t[i].app_key /\ t[j].feature_norm = t[i].feature_norm}, 1)

\* main, lines 193-202; a frame built from no row has no column to
\* deduplicate on, and drop_duplicates raises KeyError
FlattenMain ==
    /\ fpc = "start"
    /\ LET rows_ == parse_all(flat_in, 1)
       IN  IF rows_ = <<>>
           THEN flat_out' = flat_out /\ fpc' = "failed"
           ELSE flat_out' = drop_duplicates_flat(rows_) /\ fpc' = "done"
    /\ UNCHANGED flat_in
    /\ UNCHANGED exceptFlat

NextFlat == FlattenMain

MaxFlatRows == 2    \* most rows of features.csv

RaterKinds == { <<"openai", "gpt-4o-mini">>, <<"local", "heuristic">> }

BlobKinds ==
    { JsonNone,
      JsonList(<<>>),
      JsonList(<< ItemStr("Site Blocker"), ItemStr(" pomodoro ") >>),
      JsonDict("features", << ItemDict("site  blocker", "strong_support"),
                              ItemDict("", "neutral") >>, ""),
      JsonDict("items", << ItemStr("Pomodoro") >>, "weak_support"),
      JsonDict("other", <<>>, "") }

FeatureRow(key, title, rater, obj) ==
    [app_key |-> key, title |-> title, vendor |-> rater[1], model |-> rater[2], obj |-> obj]

FlatRowKinds ==
    { FeatureRow(K1, "Pomo Site Blocker", rt, o) : rt \in RaterKinds, o \in BlobKinds }
    \cup { FeatureRow(K2, "Notes", rt, o) : rt \in RaterKinds,
              o \in {JsonNone, JsonList(<< ItemStr("Site Blocker"), ItemStr(" pomodoro ") >>)} }

InitFlat ==
    /\ flat_in \in SeqsUpTo(FlatRowKinds, MaxFlatRows)
    /\ flat_out = <<>>
    /\ fpc = "start"
    /\ IdleButFlat

SpecFlat == InitFlat /\ [][NextFlat]_vars

\* the raters (vendor, model) that labeled app_key with the feature f_norm
RatersOf(t, key, f_norm) ==
    {<<t[i].vendor, t[i].model>> :
        i \in {j \in 1..Len(t) : t[j].app_key = key /\ t[j].feature_norm = f_norm}}

\* C14: every (app_key, feature) label of every rater is still in the
\* flattened table: for each pair the table holds a row of each rater that
\* labeled it.
C14_RatersRetained ==
    fpc = "done" =>
        LET all == parse_all(flat_in, 1)
        IN  \A i \in 1..Len(all) :
                RatersOf(flat_out, all[i].app_key, all[i].feature_norm)
                    = RatersOf(all, all[i].app_key, all[i].feature_norm)

-----------------------------------------------------------------------------
(* llm/sentiment_pipeline: run_sentiment with the default filters.  Every  *)
(* cell of the review CSV is read as text (dtype=str, NaN filled with "").  *)
(* The compound score the analyzer gives a review text is an input of the  *)
(* model (hundredths).                                                     *)

\* pd.to_numeric(s, errors="coerce") of a one-digit rating text
to_numeric(s) ==
    IF Len(s) = 1 /\ s \in Chars(Digits) THEN Num(IndexIn(Digits, s) - 1) ELSE NaN

\* Series.astype(bool) of a text cell: any non-empty text is True
astype_bool(s) == s # ""

\* VaderEngine.score: the label of a compound score
score_label(c) == IF c >= 5 THEN "positive" ELSE IF c <= -5 THEN "negative" ELSE "neutral"

\* lines 156-158
special_filter(t, has_special, only) ==
    IF only /\ has_special
    THEN SelectIdx(t, {i \in 1..Len(t) : astype_bool(t[i].special_reviews)}, 1)
    ELSE t

\* lines 174-182
scored(t) ==
    [i \in 1..Len(t) |->
        [app_key |-> t[i].app_key, store |-> t[i].store, country |-> t[i].country,
         rating |-> to_numeric(t[i].rating), special_reviews |-> t[i].special_reviews,
         sentiment_score |-> t[i].compound, sentiment_label |-> score_label(t[i].compound)]]

\* (app_key, store, country) group keys in groupby order
TripleBefore(a, b) ==
    \/ StrLess(a[1], b[1])
    \/ a[1] = b[1] /\ StrLess(a[2], b[2])
    \/ a[1] = b[1] /\ a[2] = b[2] /\ StrLess(a[3], b[3])
RECURSIVE SortTriples(_)
SortTriples(S) ==
    IF S = {} THEN <<>>
    ELSE LET m == CHOOSE x \in S : \A y \in S \ {x} : TripleBefore(x, y)
         IN  <<m>> \o SortTriples(S \ {m})

TripleIdx(t, key) == {i \in 1..Len(t) : <<t[i].app_key, t[i].store, t[i].country>> = key}

\* lines 194-216
app_agg(t, has_special) ==
    LET keys == SortTriples({<<t[i].app_key, t[i].store, t[i].country>> : i \in 1..Len(t)})
    IN  [k \in 1..Len(keys) |->
            LET g == TripleIdx(t, keys[k])
                is_nd == {i \in g : has_special /\ astype_bool(t[i].special_reviews)}
            IN  [app_key       |-> keys[k][1],
                 store         |-> keys[k][2],
                 country       |-> keys[k][3],
                 n_reviews     |-> Cardinality(g),
                 n_nd          |-> Cardinality(is_nd),
                 avg_rating    |-> series_mean(t, g, "rating"),
                 mean_compound |-> Q(SumOver(g, [i \in 1..Len(t) |-> t[i].sentiment_score]),
                                     Cardinality(g)),
                 pct_positive  |-> Q(Cardinality({i \in g : t[i].sentiment_label = "positive"}),
                                     Cardinality(g)),
                 pct_negative  |-> Q(Cardinality({i \in g : t[i].sentiment_label = "negative"}),
                                     Cardinality(g))]]

NoCsv == [written |-> FALSE, rows |-> <<>>]

\* lines 121-191: read, filter, score, write the row-level file; with no row
\* left both outputs are written empty and the run ends
ScoreReviews ==
    /\ spc = "start"
    /\ IF ~inp.exists
       THEN /\ spc' = "failed"
            /\ UNCHANGED <<sdf, out_reviews, out_apps>>
       ELSE LET kept == special_filter(inp.rows, inp.has_special, special_only)
            IN  IF kept = <<>>
                THEN /\ sdf' = <<>>
                     /\ out_reviews' = [written |-> TRUE, rows |-> <<>>]
                     /\ out_apps' = [written |-> TRUE, rows |-> <<>>]
                     /\ spc' = "done"
                ELSE /\ sdf' = scored(kept)
                     /\ out_reviews' = [written |-> TRUE, rows |-> scored(kept)]
                     /\ out_apps' = out_apps
                     /\ spc' = "scored"
    /\ UNCHANGED <<inp, special_only>>
    /\ UNCHANGED exceptSentiment

\* lines 193-222
AggregateApps ==
    /\ spc = "scored"
    /\ out_apps' = [written |-> TRUE, rows |-> app_agg(sdf, inp.has_special)]
    /\ spc' = "done"
    /\ UNCHANGED <<inp, special_only, sdf, out_reviews>>
    /\ UNCHANGED exceptSentiment

NextSentiment == ScoreReviews \/ AggregateApps

MaxScoredRows == 3  \* most rows of the review CSV handed to run_sentiment

\* a stored review: rating, the analyzer's compound score of its text, and
\* the special_reviews cell as reviews_pipeline wrote it
StoredReview(key, store, country, rating, compound, special) ==
    [app_key |-> key, store |-> store, country |-> country, rating |-> rating,
     compound |-> compound, special_reviews |-> special]

StoredKinds ==
    { StoredReview(K1, "play", "us", "5", 60, "True"),
      StoredReview(K1, "play", "us", "1", -60, "False"),
      StoredReview(K1, "play", "us", "", 0, ""),
      StoredReview(K1, "play", "gb", "4", 60, "False"),
      StoredReview(K2, "ios", "us", "3", 0, "True"),
      StoredReview(K2, "ios", "us", "2", -60, "False") }

InitSentiment ==
    /\ \/ inp = [exists |-> FALSE, has_special |-> FALSE, rows |-> <<>>]
       \/ \E hs \in BOOLEAN : \E t \in SeqsUpTo(StoredKinds, MaxScoredRows) :
             inp = [exists |-> TRUE, has_special |-> hs, rows |-> t]
    /\ special_only \in BOOLEAN
    /\ sdf = <<>>
    /\ out_reviews = NoCsv
    /\ out_apps = NoCsv
    /\ spc = "start"
    /\ IdleButSentiment

SpecSentiment == InitSentiment /\ [][NextSentiment]_vars

\* the special flag of a stored review is true
IsSpecial(r) == inp.has_special /\ r.special_reviews = "True"

\* the input rows that --special-only keeps
KeptRows ==
    IF special_only /\ inp.has_special
    THEN {i \in 1..Len(inp.rows) : IsSpecial(inp.rows[i])}
    ELSE 1..Len(inp.rows)

\* C15: out_apps holds one row per (app_key, store, country) group of the
\* kept reviews, with n_reviews the number of rows of the group and n_nd the
\* number of those whose special flag is true (a stored False is not
\* counted); with --special-only only rows whose flag is true are kept.
C15_SpecialCounts ==
    spc = "done" =>
        /\ Len(out_reviews.rows) = Cardinality(KeptRows)
        /\ \A i \in KeptRows :
              LET key == <<inp.rows[i].app_key, inp.rows[i].store, inp.rows[i].country>>
                  g   == {j \in KeptRows : <<inp.rows[j].app_key, inp.rows[j].store,
                                             inp.rows[j].country>> = key}
                  m   == TripleIdx(out_apps.rows, key)
              IN  /\ Cardinality(m) = 1
                  /\ \A k \in m :
                        /\ out_apps.rows[k].n_reviews = Cardinality(g)
                        /\ out_apps.rows[k].n_nd
                              = Cardinality({j \in g : IsSpecial(inp.rows[j])})
                        /\ out_apps.rows[k].n_nd <= out_apps.rows[k].n_reviews

-----------------------------------------------------------------------------
(* scrapers/reviews_pipeline: de-duplication of fetched reviews.           *)
(* The time of a review ("at") is a day number, 0 when it is missing or    *)
(* does not parse.  The MD5 of the normalized text is stood for by the     *)
(* normalized text itself.  Review texts hold no URL.                      *)

\* PUNCT_RX.sub(" ", s): every character that is neither \w nor \s
RECURSIVE punct_to_space(_, _)
punct_to_space(t, i) ==
    IF i > Len(t) THEN ""
    ELSE (IF IsWordChar(At(t, i)) \/ IsSpace(At(t, i)) THEN At(t, i) ELSE " ")
         \o punct_to_space(t, i + 1)

_norm_review_text(title, body) ==
    LET s == strip(strip(lower(title)) \o " " \o strip(lower(body)))
    IN  strip(collapse_ws(punct_to_space(s, 1), 1))

_text_hash(app_key, title, body) == <<app_key, _norm_review_text(title, body)>>

key_id(r, scope) ==
    IF scope = "global" THEN <<r.app_key, r.review_id>>
    ELSE <<r.app_key, r.country, r.review_id>>
key_tx(r, scope) ==
    IF scope = "global" THEN <<r.app_key, _text_hash(r.app_key, r.title, r.body)>>
    ELSE <<r.app_key, r.country, _text_hash(r.app_key, r.title, r.body)>>

\* dict lookup and assignment on the insertion-ordered best_by_text
BestIdx(best, k) == {i \in 1..Len(best) : best[i].key = k}
BestPut(best, k, row) ==
    IF BestIdx(best, k) = {} THEN Append(best, [key |-> k, row |-> row])
    ELSE [i \in 1..Len(best) |-> IF best[i].key = k THEN [key |-> k, row |-> row] ELSE best[i]]
BestValues(best) == [i \in 1..Len(best) |-> best[i].row]

\* read_seen_keys.better, lines 204-209
better(cur, new) ==
    IF cur.at # 0 /\ new.at # 0 THEN new.at > cur.at
    ELSE IF cur.at # 0 \/ new.at # 0 THEN new.at # 0
    ELSE Len(new.body) > Len(cur.body)

\* read_seen_keys, lines 182-221, from row i on
RECURSIVE read_seen_from(_, _, _, _)
read_seen_from(t, i, scope, st) ==
    IF i > Len(t) THEN st
    ELSE LET r    == t[i]
             k    == key_tx(r, scope)
             cur  == BestIdx(st.best, k)
             take == cur = {} \/ better(st.best[CHOOSE j \in cur : TRUE].row, r)
         IN  read_seen_from(t, i + 1, scope,
                [seen |-> IF r.review_id # "" THEN st.seen \cup {key_id(r, scope)} ELSE st.seen,
                 best |-> IF take THEN BestPut(st.best, k, r) ELSE st.best])

read_seen_keys(csv, scope) ==
    IF ~csv.exists THEN [seen |-> {}, best |-> <<>>]
    ELSE read_seen_from(csv.rows, 1, scope, [seen |-> {}, best |-> <<>>])

\* _pick_better(a, b) with a present
_pick_better(a, b) ==
    IF a.at # 0 /\ b.at # 0 THEN (IF b.at > a.at THEN b ELSE a)
    ELSE IF a.at # 0 \/ b.at # 0 THEN (IF b.at # 0 THEN b ELSE a)
    ELSE IF Len(b.body) > Len(a.body) THEN b ELSE a

\* maybe_flush step 1, lines 381-395
date_filter(rs, cutoff) ==
    IF cutoff = 0 THEN rs
    ELSE SelectIdx(rs, {i \in 1..Len(rs) : rs[i].at # 0 /\ rs[i].at >= cutoff}, 1)

\* maybe_flush step 2, lines 398-427, from row i on
RECURSIVE dedupe_from(_, _, _, _)
dedupe_from(rs, i, scope, st) ==
    IF i > Len(rs) THEN st
    ELSE LET r0 == rs[i]
             r  == [r0 EXCEPT !.review_id = strip(r0.review_id)]
             k  == key_tx(r, scope)
             ex == BestIdx(st.best, k)
         IN  IF r.review_id # "" /\ key_id(r, scope) \in st.seen
             THEN dedupe_from(rs, i + 1, scope, st)
             ELSE dedupe_from(rs, i + 1, scope,
                    [seen |-> IF r.review_id # "" THEN st.seen \cup {key_id(r, scope)}
                              ELSE st.seen,
                     best |-> BestPut(st.best, k,
                                IF ex = {} THEN r
                                ELSE _pick_better(st.best[CHOOSE j \in ex : TRUE].row, r))])

\* append_rows_to_csv, lines 123-137
append_rows_to_csv(csv, rs) ==
    IF rs = <<>> THEN csv ELSE [exists |-> TRUE, rows |-> csv.rows \o rs]

\* maybe_flush, lines 375-433: the state it leaves
maybe_flush(b, st, csv, opts) ==
    IF b = <<>> THEN [seen |-> st.seen, best |-> st.best, csv |-> csv]
    ELSE LET st2 == dedupe_from(date_filter(b, opts.cutoff), 1, opts.dedupe_scope, st)
         IN  [seen |-> st2.seen, best |-> st2.best,
              csv  |-> append_rows_to_csv(csv, BestValues(st2.best))]

NoOut == [exists |-> FALSE, rows |-> <<>>]

\* lines 364-367
ReadSeen ==
    /\ rpc = "start"
    /\ LET csv == IF ropts.overwrite THEN NoOut ELSE rev_out
           st  == read_seen_keys(csv, ropts.dedupe_scope)
       IN  /\ rev_out' = csv
           /\ seen_by_id' = st.seen
           /\ best_by_text' = st.best
    /\ rpc' = "loop"
    /\ UNCHANGED <<ropts, batch, fetches>>
    /\ UNCHANGED exceptReviews

MaxFetches == 2     \* most (app, country, lang) fetches of one run

Review(key, country, rid, title, body, at) ==
    [app_key |-> key, country |-> country, review_id |-> rid, title |-> title,
     body |-> body, at |-> at]

RevA     == Review(K1, "us", "r1", "", "Great app!", 10)
RevAgb   == Review(K1, "gb", "g7", "", "great app", 12)
RevAsame == Review(K1, "gb", "r1", "", "Great app, really", 12)
RevB     == Review(K1, "us", "r2", "", "Bad", 0)
RevBlong == Review(K1, "us", "r3", "", "BAD!!!", 0)
RevC     == Review(K2, "us", "r1", "", "Great app!", 10)

\* what one fetch_play_reviews / fetch_ios_reviews call can return
FetchResults ==
    { <<>>, << RevA >>, << RevA, RevB >>, << RevAgb >>, << RevBlong, RevC >>, << RevAsame >> }

\* lines 447-456: one fetch, and the flush it triggers when the batch is full
FetchOne ==
    /\ rpc = "loop"
    /\ fetches < MaxFetches
    /\ \E got \in FetchResults :
          LET b == batch \o got
          IN  IF Len(b) >= ropts.flush_every
              THEN LET f == maybe_flush(b, [seen |-> seen_by_id, best |-> best_by_text],
                                        rev_out, ropts)
                   IN  /\ seen_by_id' = f.seen
                       /\ best_by_text' = f.best
                       /\ rev_out' = f.csv
                       /\ batch' = <<>>
              ELSE /\ batch' = b
                   /\ UNCHANGED <<seen_by_id, best_by_text, rev_out>>
    /\ fetches' = fetches + 1
    /\ UNCHANGED <<ropts, rpc>>
    /\ UNCHANGED exceptReviews

\* line 462: the closing flush
FinalFlush ==
    /\ rpc = "loop"
    /\ LET f == maybe_flush(batch, [seen |-> seen_by_id, best |-> best_by_text],
                            rev_out, ropts)
       IN  /\ seen_by_id' = f.seen
           /\ best_by_text' = f.best
           /\ rev_out' = f.csv
    /\ batch' = <<>>
    /\ rpc' = "done"
    /\ UNCHANGED <<ropts, fetches>>
    /\ UNCHANGED exceptReviews

NextReviews == ReadSeen \/ FetchOne \/ FinalFlush

\* the output of an earlier run that flushed once
EarlierOut == [exists |-> TRUE, rows |-> << RevA >>]

InitReviews ==
    /\ \E fe \in {1, 3} : \E sc \in {"global", "country"} : \E cu \in {0, 11} :
       \E ow \in BOOLEAN :
          ropts = [flush_every |-> fe, dedupe_scope |-> sc, cutoff |-> cu, overwrite |-> ow]
    /\ rev_out \in {NoOut, EarlierOut}
    /\ seen_by_id = {} /\ best_by_text = <<>> /\ batch = <<>> /\ fetches = 0
    /\ rpc = "start"
    /\ IdleButReviews

SpecReviews == InitReviews /\ [][NextReviews]_vars

\* the rows of the file with a given content hash / review id
RowsWithText(csv, k) == {i \in 1..Len(csv.rows) : key_tx(csv.rows[i], "global") = k}
RowsWithId(csv, k) == {i \in 1..Len(csv.rows) : key_id(csv.rows[i], "global") = k}

\* C16: when run_reviews_to_csv has finished under global scope, the file
\* holds at most one row per (app_key, content hash) and at most one row per
\* (app_key, review_id), and the row kept for a content hash is the one
\* best_by_text prefers.
C16_DedupedOutput ==
    (rpc = "done" /\ ropts.dedupe_scope = "global") =>
        /\ \A i \in 1..Len(rev_out.rows) :
              /\ Cardinality(RowsWithText(rev_out, key_tx(rev_out.rows[i], "global"))) = 1
              /\ Cardinality(RowsWithId(rev_out, key_id(rev_out.rows[i], "global"))) = 1
        /\ \A j \in 1..Len(best_by_text) :
              \A i \in RowsWithText(rev_out, best_by_text[j].key) :
                  rev_out.rows[i] = best_by_text[j].row

-----------------------------------------------------------------------------
(* etl/clean_apps: dedupe by app_key, then the quality gates.  scraped_at  *)
(* is a day number after to_iso_date, NaN when blank or unparseable;       *)
(* relevance_score is in hundredths.                                       *)

\* ascending order of one sort key, NaN/NaT last (na_position="last")
CellLess(a, b) ==
    IF a.kind = "num" /\ b.kind = "num" THEN a.n < b.n
    ELSE a.kind = "num" /\ b.kind # "num"

\* an ordering that puts a missing value first
CellLessNaFirst(a, b) ==
    IF a.kind = "num" /\ b.kind = "num" THEN a.n < b.n
    ELSE a.kind # "num" /\ b.kind = "num"

\* row a sorts strictly before row b under sort_values(["_t", "_rc"])
CleanBefore(a, b) ==
    \/ CellLess(a.scraped_at, b.scraped_at)
    \/ /\ ~CellLess(b.scraped_at, a.scraped_at)
       /\ CellLess(a.rating_count, b.rating_count)

\* stable sort_values(["_t","_rc"], ascending=[True, True]): insertion of
\* row r behind every row that does not sort after it
RECURSIVE clean_insert(_, _)
clean_insert(sorted, r) ==
    IF sorted = <<>> THEN << r >>
    ELSE IF CleanBefore(r, Head(sorted)) THEN << r >> \o sorted
    ELSE << Head(sorted) >> \o clean_insert(Tail(sorted), r)

RECURSIVE clean_sort(_, _)
clean_sort(t, i) ==
    IF i = 0 THEN <<>> ELSE clean_insert(clean_sort(t, i - 1), t[i])

\* drop_duplicates(subset=["app_key"], keep="last")
last_per_key(t) ==
    SelectIdx(t, {i \in 1..Len(t) : ~\E j \in (i + 1)..Len(t) : t[j].app_key = t[i].app_key}, 1)

\* lines 49-57
dedupe_apps(t) == last_per_key(clean_sort(t, Len(t)))

\* lines 44-47 and 59-72 with the default thresholds
keep_mask(r) ==
    LET have_text == ~IsNaN(r.title) \/ ~IsNaN(r.description)
        junk      == Len(PyStr(r.title)) < 2
        rc        == ToNum(r.rating_count)
        ins       == ToNum(r.installs_or_users)
        ok_signal == \/ rc >= 10
                     \/ r.store = "PlayStore" /\ ins >= 50000
                     \/ r.store = "ChromeWS" /\ ins >= 10000
    IN  have_text /\ ~junk /\ ok_signal /\ ToNum(r.relevance_score) >= 15

\* main, lines 28-86
CleanApps ==
    /\ kpc = "start"
    /\ LET d == dedupe_apps(apps_all)
       IN  /\ apps_kept' = SelectIdx(d, {i \in 1..Len(d) : keep_mask(d[i])}, 1)
           /\ apps_dropped' = SelectIdx(d, {i \in 1..Len(d) : ~keep_mask(d[i])}, 1)
    /\ kpc' = "done"
    /\ UNCHANGED apps_all
    /\ UNCHANGED exceptClean

NextClean == CleanApps

MaxAppRows == 3     \* most rows of apps_all.csv

AppRow(key, store, title, scraped_at, rating_count) ==
    [app_key |-> key, store |-> store, title |-> title, description |-> NaN,
     scraped_at |-> scraped_at, rating_count |-> rating_count,
     installs_or_users |-> Num(100), relevance_score |-> Num(40)]

AppRowKinds ==
    { AppRow(K1, "PlayStore", Str("Pomo v1"), Num(5), Num(100)),
      AppRow(K1, "PlayStore", Str("Pomo v2"), Num(7), Num(50)),
      AppRow(K1, "PlayStore", Str("Pomo v3"), Num(7), Num(80)),
      AppRow(K1, "PlayStore", Str("Pomo undated"), NaN, Num(500)),
      AppRow(K1, "PlayStore", Str("Pomo uncounted"), Num(7), NaN),
      AppRow(K2, "AppStore", Str("Notes"), Num(3), Num(5)) }

InitClean ==
    /\ apps_all \in SeqsUpTo(AppRowKinds, MaxAppRows)
    /\ apps_kept = <<>>
    /\ apps_dropped = <<>>
    /\ kpc = "start"
    /\ IdleButClean

SpecClean == InitClean /\ [][NextClean]_vars

\* row a is to be preferred to row b: scraped later, or on the same day
\* with a higher rating_count; a missing value ranks below every value
Preferred(a, b) ==
    \/ CellLessNaFirst(b.scraped_at, a.scraped_at)
    \/ /\ a.scraped_at = b.scraped_at
       /\ CellLessNaFirst(b.rating_count, a.rating_count)

\* C17: of the rows sharing an app_key clean_apps passes on exactly one,
\* and no other row of that key has a later scraped_at, or the same
\* scraped_at and a higher rating_count; a row without scraped_at (or
\* rating_count) is not the one passed on when a row with it exists.
C17_LatestPerKey ==
    kpc = "done" =>
        LET d == apps_kept \o apps_dropped
        IN  \A i \in 1..Len(apps_all) :
                LET m == KeyIdx(d, apps_all[i].app_key)
                IN  /\ Cardinality(m) = 1
                    /\ \A k \in m :
                          /\ \E j \in 1..Len(apps_all) : apps_all[j] = d[k]
                          /\ ~Preferred(apps_all[i], d[k])

-----------------------------------------------------------------------------
(* app_key: built by the app scrapers, taken apart by the review scraper's *)
(* load_candidates_from_dump and rebuilt by compute_app_key.               *)

\* re.search(r"(\d+)", t): the first maximal run of digits, "" without one
FirstDigits(t) ==
    LET ds == {i \in 1..Len(t) : At(t, i) \in Chars(Digits)}
    IN  IF ds = {} THEN ""
        ELSE LET a == CHOOSE i \in ds : \A j \in ds : i <= j
                 e == CHOOSE i \in a..Len(t) :
                          /\ \A j \in a..i : j \in ds
                          /\ (i + 1) \notin ds
             IN  SubSeq(t, a, e)

compute_app_key(store, platform_id) ==
    LET s   == strip(store)
        pid == strip(platform_id)
        d   == FirstDigits(pid)
    IN  IF StartsWith(lower(s), "play") THEN "play:" \o pid
        ELSE IF StartsWith(lower(s), "appstore") \/ StartsWith(lower(s), "ios")
             THEN "ios:" \o (IF StartsWith(pid, "id") THEN pid
                             ELSE "id" \o (IF d # "" THEN d ELSE pid))
        ELSE IF StartsWith(lower(s), "chrome") THEN "cws:" \o pid
        ELSE lower(s) \o ":" \o pid

norm_ios_id(raw_id) == IF FirstDigits(raw_id) # "" THEN FirstDigits(raw_id) ELSE raw_id

\* the app_key field of scrape_play_details / scrape_cws_details /
\* scrape_ios_details
details_app_key(store, id) ==
    IF store = "PlayStore" THEN "play:" \o id
    ELSE IF store = "ChromeWS" THEN "cws:" \o id
    ELSE "ios:" \o id

\* scrape_details: one app table row per item
ScrapeDetails ==
    /\ xpc = "scrape"
    /\ app_table' = [i \in 1..Len(seeds) |->
                        [store |-> seeds[i].store, id |-> seeds[i].id,
                         app_key |-> details_app_key(seeds[i].store, seeds[i].id)]]
    /\ xpc' = "load"
    /\ UNCHANGED <<seeds, candidates, review_rows>>
    /\ UNCHANGED exceptKeys

\* ak.split(":", 1)
ColonAt(ak) ==
    LET cs == {i \in 1..Len(ak) : At(ak, i) = ":"}
    IN  IF cs = {} THEN 0 ELSE CHOOSE i \in cs : \A j \in cs : i <= j

StoreOfPrefix(prefix) ==
    CASE prefix = "play" -> "PlayStore"
      [] prefix \in {"ios", "appstore"} -> "AppStore"
      [] prefix \in {"cws", "chrome"} -> "ChromeWS"
      [] OTHER -> prefix

\* load_candidates_from_dump on a CSV with an app_key column, lines 87-97
\* and the de-duplication of lines 101-109
load_candidates_from_dump(t) ==
    LET keyed == SelectIdx(t, {i \in 1..Len(t) : ColonAt(t[i].app_key) # 0}, 1)
        items == [i \in 1..Len(keyed) |->
                    LET ak == keyed[i].app_key
                        c  == ColonAt(ak)
                    IN  [store  |-> StoreOfPrefix(SubSeq(ak, 1, c - 1)),
                         id     |-> SubSeq(ak, c + 1, Len(ak)),
                         source |-> ak]]
    IN  SelectIdx(items, {i \in 1..Len(items) : ~\E j \in 1..(i - 1) :
                             items[j].store = items[i].store /\ items[j].id = items[i].id}, 1)

LoadCandidates ==
    /\ xpc = "load"
    /\ candidates' = load_candidates_from_dump(app_table)
    /\ xpc' = "fetch"
    /\ UNCHANGED <<seeds, app_table, review_rows>>
    /\ UNCHANGED exceptKeys

\* the app_key fetch_play_reviews (line 265) / fetch_ios_reviews (lines 289,
\* 327) put on every row fetched for a candidate; no fetch for ChromeWS
fetched_app_key(it) ==
    IF it.store = "PlayStore" THEN compute_app_key("PlayStore", it.id)
    ELSE compute_app_key("AppStore", norm_ios_id(it.id))

\* lines 444-456: reviews of one candidate arrive; source remembers the app
\* table key the candidate was read from
FetchReviews ==
    /\ xpc = "fetch"
    /\ \E k \in 1..Len(candidates) :
          /\ candidates[k].store \in {"PlayStore", "AppStore"}
          /\ ~\E j \in 1..Len(review_rows) : review_rows[j].source = candidates[k].source
          /\ review_rows' = Append(review_rows,
                                   [source  |-> candidates[k].source,
                                    app_key |-> fetched_app_key(candidates[k])])
    /\ UNCHANGED <<seeds, app_table, candidates, xpc>>
    /\ UNCHANGED exceptKeys

\* line 462: the run ends
FetchDone ==
    /\ xpc = "fetch"
    /\ xpc' = "done"
    /\ UNCHANGED <<seeds, app_table, candidates, review_rows>>
    /\ UNCHANGED exceptKeys

NextKeys == ScrapeDetails \/ LoadCandidates \/ FetchReviews \/ FetchDone

MaxSeeds == 2       \* most apps of the app table

\* ids as discover_ios_by_keywords / the Play search yield them, and iOS ids
\* of a seeds file written without the "id" prefix
SeedKinds ==
    { [store |-> "PlayStore", id |-> "com.focus.app"],
      [store |-> "PlayStore", id |-> "id.co.app2"],
      [store |-> "ChromeWS",  id |-> "abcdefgh"],
      [store |-> "AppStore",  id |-> "id1146560473"],
      [store |-> "AppStore",  id |-> "id42"],
      [store |-> "AppStore",  id |-> "1146560473"],
      [store |-> "AppStore",  id |-> "42"] }

InitKeys ==
    /\ seeds \in SeqsUpTo(SeedKinds, MaxSeeds)
    /\ app_table = <<>> /\ candidates = <<>> /\ review_rows = <<>>
    /\ xpc = "scrape"
    /\ IdleButKeys

SpecKeys == InitKeys /\ [][NextKeys]_vars

\* C18: every review row carries exactly the app_key of the app table row
\* its candidate was read from, and compute_app_key leaves an iOS id that
\* starts with "id" as it is.
C18_KeyRoundTrip ==
    /\ \A j \in 1..Len(review_rows) : review_rows[j].app_key = review_rows[j].source
    /\ \A i \in 1..Len(app_table) :
          (app_table[i].store = "AppStore" /\ StartsWith(app_table[i].id, "id"))
              => compute_app_key("AppStore", app_table[i].id) = "ios:" \o app_table[i].id

-----------------------------------------------------------------------------
(* etl/scrape_websites: resumable website scraping.  What fetch_text       *)
(* returns for a URL (a status, or none after three failed attempts) is    *)
(* chosen by the environment.                                              *)

\* _SKIP_SCHEMES
SkipSchemes == {"mailto:", "tel:", "sms:", "market:", "intent:", "itms"}

\* urlparse(u).netloc of an http(s) URL
Netloc(u) ==
    LET start == IF StartsWith(lower(u), "https://") THEN 9 ELSE 8
        stops == {i \in start..Len(u) : At(u, i) \in {"/", "?", "#"}}
        e     == IF stops = {} THEN Len(u)
                 ELSE (CHOOSE i \in stops : \A j \in stops : i <= j) - 1
    IN  SubSeq(u, start, e)

\* _normalize_and_validate: a valid http(s) URL, or "" to skip
_normalize_and_validate(v) ==
    IF ~IsStr(v) THEN ""
    ELSE LET u0 == strip(v.s)
             u  == IF StartsWith(lower(u0), "http://") \/ StartsWith(lower(u0), "https://")
                   THEN u0 ELSE "https://" \o u0
         IN  IF u0 = "" \/ \E sch \in SkipSchemes : StartsWith(lower(u0), sch) THEN ""
             ELSE IF Netloc(u) = "" \/ ~Contains(Netloc(u), ".") THEN ""
             ELSE u

\* a resume that reads no key from the existing output
done_keys_mutant(out, resume) == {}

\* lines 216-224: the keys to skip
done_keys(out, resume) ==
    IF resume /\ out.exists THEN {out.rows[i].app_key : i \in 1..Len(out.rows)} ELSE {}

ReadDone ==
    /\ wpc = "start"
    /\ done' = done_keys(site_out, site_opts.resume)
    /\ site_rows' = <<>>
    /\ site_i' = 1
    /\ fetched' = {}
    /\ at_start' = site_out
    /\ wpc' = "loop"
    /\ UNCHANGED <<site_apps, site_opts, site_out, runs>>
    /\ UNCHANGED exceptSites

\* lines 230-266: one pass of the loop over the apps
ScrapeSite ==
    /\ wpc = "loop"
    /\ site_i <= Len(site_apps)
    /\ LET t   == site_apps[site_i]
           url == _normalize_and_validate(t.website_url)
       IN  IF (site_opts.resume /\ t.app_key \in done) \/ url = ""
           THEN /\ site_i' = site_i + 1
                /\ UNCHANGED <<site_rows, fetched, wpc>>
           ELSE \E status \in {200, 404, 0} :
                   /\ site_rows' = Append(site_rows,
                                          [app_key |-> t.app_key, website_url |-> t.website_url,
                                           website_status |-> status, scraped_at |-> runs + 1])
                   /\ fetched' = fetched \cup {t.app_key}
                   /\ site_i' = site_i + 1
                   /\ wpc' = IF site_opts.max_sites > 0
                                /\ Len(site_rows) + 1 >= site_opts.max_sites
                             THEN "write" ELSE "loop"
    /\ UNCHANGED <<site_apps, site_opts, site_out, done, at_start, runs>>
    /\ UNCHANGED exceptSites

\* lines 268-278: append to an existing file on resume, else (over)write
WriteSites ==
    /\ \/ wpc = "write"
       \/ wpc = "loop" /\ site_i > Len(site_apps)
    /\ site_out' = IF site_opts.resume /\ site_out.exists
                   THEN [exists |-> TRUE, rows |-> site_out.rows \o site_rows]
                   ELSE [exists |-> TRUE, rows |-> site_rows]
    /\ runs' = runs + 1
    /\ wpc' = "done"
    /\ UNCHANGED <<site_apps, site_opts, done, site_rows, site_i, fetched, at_start>>
    /\ UNCHANGED exceptSites

MaxRuns == 2        \* most runs of scrape_websites over one output file

SiteApp(key, url) == [app_key |-> key, website_url |-> url]
SiteA == SiteApp(K1, Str("https://focus.example/app"))
SiteB == SiteApp(K2, Str(" notes.example "))
SiteC == SiteApp("cws:x", Str("mailto:dev@focus.example"))
SiteD == SiteApp("play:b", Str("http://b.example"))

\* app tables with unique app_keys
SiteTables == { <<>>, << SiteA >>, << SiteA, SiteB, SiteC >>, << SiteC, SiteB, SiteD, SiteA >> }

\* main invoked again with --resume, over the same or a grown app table
ResumeAgain ==
    /\ wpc = "done"
    /\ runs < MaxRuns
    /\ site_apps' \in SiteTables
    /\ \E mx \in {0, 1} : site_opts' = [resume |-> TRUE, max_sites |-> mx]
    /\ wpc' = "start"
    /\ UNCHANGED <<site_out, done, site_rows, site_i, fetched, at_start, runs>>
    /\ UNCHANGED exceptSites

NextSites == ReadDone \/ ScrapeSite \/ WriteSites \/ ResumeAgain

InitSites ==
    /\ site_apps \in SiteTables
    /\ \E rs \in BOOLEAN : \E mx \in {0, 1} : site_opts = [resume |-> rs, max_sites |-> mx]
    /\ site_out \in { [exists |-> FALSE, rows |-> <<>>],
                      [exists |-> TRUE, rows |-> <<>>],
                      [exists |-> TRUE,
                       rows |-> << [app_key |-> K2, website_url |-> Str(" notes.example "),
                                    website_status |-> 200, scraped_at |-> 0] >>] }
    /\ done = {} /\ site_rows = <<>> /\ site_i = 0 /\ fetched = {}
    /\ at_start = [exists |-> FALSE, rows |-> <<>>]
    /\ runs = 0
    /\ wpc = "start"
    /\ IdleButSites

SpecSites == InitSites /\ [][NextSites]_vars

InRun == wpc \in {"loop", "write", "done"}

\* C19: a run with --resume calls fetch_text for no app_key the output file
\* already holds, and leaves the file as its old rows followed by the rows
\* scraped in this run; over app tables with unique keys every app_key is in
\* the output at most once after any number of runs.
C19_ResumeAppendSkip ==
    /\ (InRun /\ site_opts.resume) =>
          \A j \in 1..Len(at_start.rows) : at_start.rows[j].app_key \notin fetched
    /\ (wpc = "done" /\ site_opts.resume) =>
          site_out.rows = at_start.rows \o site_rows
    /\ (InRun) =>
          \A j \in 1..Len(site_rows) : site_rows[j].app_key \in fetched
    /\ \A j \in 1..Len(site_out.rows) :
          Cardinality(KeyIdx(site_out.rows, site_out.rows[j].app_key)) = 1

\* a second, resumed run skipped the apps already scraped and appended a
\* new one behind the old rows
C19_Witness ==
    /\ wpc = "done" /\ runs = 2 /\ site_opts.resume
    /\ Len(at_start.rows) >= 2
    /\ site_rows # <<>>
    /\ \E i \in 1..Len(site_apps) : site_apps[i].app_key \in done
    /\ Len(site_out.rows) = Len(at_start.rows) + Len(site_rows)

-----------------------------------------------------------------------------
(* etl/llm_features: feature extraction with --resume.  The model's answer *)
(* to a prompt, or the failure of the request, is chosen by the            *)
(* environment.  A CSV written from no rows has no header line, and        *)
(* reading the app_key column of such a file raises.                       *)

\* lines 131-139: the keys to skip
llm_done_keys(out, resume) ==
    IF resume /\ out.exists /\ out.header
    THEN {out.rows[i].app_key : i \in 1..Len(out.rows)} ELSE {}

\* line 142
llm_total(d, max_apps) == IF max_apps = 0 THEN Len(d) ELSE IF max_apps < Len(d) THEN max_apps ELSE Len(d)

\* line 172: pd.DataFrame(rows).to_csv(out_path, index=False)
to_csv_rows(rs) == [exists |-> TRUE, header |-> rs # <<>>, rows |-> rs]

ReadLlmDone ==
    /\ lpc = "start"
    /\ llm_done' = llm_done_keys(llm_out, llm_opts.resume)
    /\ llm_rows' = <<>>
    /\ llm_i' = 1
    /\ llm_start' = llm_out
    /\ lpc' = "loop"
    /\ UNCHANGED <<llm_df, llm_opts, llm_out, llm_runs>>
    /\ UNCHANGED exceptFeats

\* lines 144-169: one pass of the loop; a failed request ends the run
AskModel ==
    /\ lpc = "loop"
    /\ llm_i <= llm_total(llm_df, llm_opts.max_apps)
    /\ LET ak == llm_df[llm_i].app_key
       IN  IF llm_opts.resume /\ ak \in llm_done
           THEN /\ llm_i' = llm_i + 1
                /\ UNCHANGED <<llm_rows, llm_runs, lpc>>
           ELSE \/ \E resp \in {"{}", "n/a"} :
                      /\ llm_rows' = Append(llm_rows,
                                            [app_key |-> ak, title |-> llm_df[llm_i].title,
                                             raw |-> resp, run |-> llm_runs + 1])
                      /\ llm_i' = llm_i + 1
                      /\ UNCHANGED <<llm_runs, lpc>>
                \/ /\ lpc' = "failed"
                   /\ llm_runs' = llm_runs + 1
                   /\ UNCHANGED <<llm_rows, llm_i>>
    /\ UNCHANGED <<llm_df, llm_opts, llm_out, llm_done, llm_start>>
    /\ UNCHANGED exceptFeats

\* lines 171-173
WriteFeatures ==
    /\ lpc = "loop"
    /\ llm_i > llm_total(llm_df, llm_opts.max_apps)
    /\ llm_out' = to_csv_rows(llm_rows)
    /\ llm_runs' = llm_runs + 1
    /\ lpc' = "done"
    /\ UNCHANGED <<llm_df, llm_opts, llm_done, llm_rows, llm_i, llm_start>>
    /\ UNCHANGED exceptFeats

LlmApp(key, title) == [app_key |-> key, title |-> title]

LlmTables == { << LlmApp(K1, "Focus") >>,
               << LlmApp(K1, "Focus"), LlmApp(K2, "Notes") >>,
               << LlmApp(K2, "Notes"), LlmApp("play:b", "Calm"), LlmApp(K1, "Focus") >> }

\* main invoked again with --resume
LlmAgain ==
    /\ lpc \in {"done", "failed"}
    /\ llm_runs < MaxRuns
    /\ llm_df' \in LlmTables
    /\ \E mx \in {0, 1} : llm_opts' = [resume |-> TRUE, max_apps |-> mx]
    /\ lpc' = "start"
    /\ UNCHANGED <<llm_out, llm_done, llm_rows, llm_i, llm_start, llm_runs>>
    /\ UNCHANGED exceptFeats

NextFeats == ReadLlmDone \/ AskModel \/ WriteFeatures \/ LlmAgain

InitFeats ==
    /\ llm_df \in LlmTables
    /\ \E rs \in BOOLEAN : \E mx \in {0, 1} : llm_opts = [resume |-> rs, max_apps |-> mx]
    /\ llm_out \in { [exists |-> FALSE, header |-> FALSE, rows |-> <<>>],
                     to_csv_rows(<< [app_key |-> K2, title |-> "Notes",
                                     raw |-> "{}", run |-> 0] >>) }
    /\ llm_done = {} /\ llm_rows = <<>> /\ llm_i = 0
    /\ llm_start = [exists |-> FALSE, header |-> FALSE, rows |-> <<>>]
    /\ llm_runs = 0
    /\ lpc = "start"
    /\ IdleButFeats

SpecFeats == InitFeats /\ [][NextFeats]_vars

HasRow(rs, r) == \E i \in 1..Len(rs) : rs[i] = r

\* C20: a run with --resume produces no row for an app_key the output file
\* already holds, and when it ends the file holds the rows of those
\* app_keys together with the rows produced in this run.
C20_ResumeKeepsRows ==
    (lpc = "done" /\ llm_opts.resume) =>
        /\ \A j \in 1..Len(llm_rows) : llm_rows[j].app_key \notin llm_done
        /\ \A j \in 1..Len(llm_rows) : HasRow(llm_out.rows, llm_rows[j])
        /\ \A j \in 1..Len(llm_start.rows) :
              llm_start.rows[j].app_key \in llm_done => HasRow(llm_out.rows, llm_start.rows[j])

-----------------------------------------------------------------------------
(* Failing external calls in the scraping stages: scrape_details           *)
(* (scrapers/scrape_pipeline) and the fetch loop of run_reviews_to_csv     *)
(* (scrapers/reviews_pipeline).  Whether a store call returns or raises is *)
(* chosen by the environment.                                              *)

\* a failure that throws away the rows collected so far
scrape_one_mutant(rs, it, ok) ==
    IF ok THEN Append(rs, [store |-> it.store, id |-> it.id,
                           app_key |-> details_app_key(it.store, it.id)])
    ELSE <<>>

\* scrape_pipeline lines 69-77: the row of one item, or nothing when the
\* store scraper raised
scrape_one(rs, it, ok) ==
    IF ok THEN Append(rs, [store |-> it.store, id |-> it.id,
                           app_key |-> details_app_key(it.store, it.id)])
    ELSE rs

ScrapeItem ==
    /\ tpc = "details"
    /\ tol_i <= Len(tol_items)
    /\ \E ok \in BOOLEAN :
          /\ tol_rows' = scrape_one(tol_rows, tol_items[tol_i], ok)
          /\ tol_log' = IF ok THEN tol_log ELSE tol_log \cup {tol_i}
    /\ tol_i' = tol_i + 1
    /\ UNCHANGED <<tol_items, tol_opts, tol_combos, tol_j, tol_batch, tol_st, tol_csv,
                   tol_warn, tol_got, tpc>>
    /\ UNCHANGED exceptTol

Countries == <<"us", "gb">>

\* reviews_pipeline lines 436-446: the fetches in loop order
combos_of(apps) ==
    [k \in 1..(Len(apps) * Len(Countries)) |->
        LET a  == apps[((k - 1) \div Len(Countries)) + 1]
            cc == Countries[((k - 1) % Len(Countries)) + 1]
        IN  [store |-> a.store, app_id |-> a.id, cc |-> cc, lg |-> "en"]]

\* scrape_pipeline line 78, then reviews_pipeline lines 354-373 over the
\* apps returned
ReturnRows ==
    /\ tpc = "details"
    /\ tol_i > Len(tol_items)
    /\ tol_combos' = combos_of(tol_rows)
    /\ tol_j' = 1
    /\ tol_st' = read_seen_keys(NoOut, tol_opts.dedupe_scope)
    /\ tol_csv' = NoOut
    /\ tpc' = "reviews"
    /\ UNCHANGED <<tol_items, tol_rows, tol_i, tol_log, tol_opts, tol_batch, tol_warn, tol_got>>
    /\ UNCHANGED exceptTol

\* the review a store returns for one (app, country)
fetched_review(c) ==
    Review(fetched_app_key([store |-> c.store, id |-> c.app_id]), c.cc,
           c.cc \o "-1", "", c.cc \o " user likes it", 10)

\* reviews_pipeline lines 447-460: one fetch returns rows or raises
FetchCombo ==
    /\ tpc = "reviews"
    /\ tol_j <= Len(tol_combos)
    /\ LET c == tol_combos[tol_j]
       IN  \E ok \in BOOLEAN :
              IF ok \/ c.store = "ChromeWS"
              THEN LET got == IF c.store = "ChromeWS" THEN <<>> ELSE << fetched_review(c) >>
                       b   == tol_batch \o got
                   IN  /\ tol_got' = tol_got \cup {got[i] : i \in 1..Len(got)}
                       /\ tol_warn' = tol_warn
                       /\ IF Len(b) >= tol_opts.flush_every
                          THEN LET f == maybe_flush(b, tol_st, tol_csv, tol_opts)
                               IN  /\ tol_st' = [seen |-> f.seen, best |-> f.best]
                                   /\ tol_csv' = f.csv
                                   /\ tol_batch' = <<>>
                          ELSE /\ tol_batch' = b
                               /\ UNCHANGED <<tol_st, tol_csv>>
              ELSE /\ tol_warn' = tol_warn \cup {tol_j}
                   /\ UNCHANGED <<tol_got, tol_batch, tol_st, tol_csv>>
    /\ tol_j' = tol_j + 1
    /\ UNCHANGED <<tol_items, tol_rows, tol_i, tol_log, tol_opts, tol_combos, tpc>>
    /\ UNCHANGED exceptTol

\* reviews_pipeline line 462
TolFlush ==
    /\ tpc = "reviews"
    /\ tol_j > Len(tol_combos)
    /\ LET f == maybe_flush(tol_batch, tol_st, tol_csv, tol_opts)
       IN  /\ tol_st' = [seen |-> f.seen, best |-> f.best]
           /\ tol_csv' = f.csv
    /\ tol_batch' = <<>>
    /\ tpc' = "done"
    /\ UNCHANGED <<tol_items, tol_rows, tol_i, tol_log, tol_opts, tol_combos, tol_j,
                   tol_warn, tol_got>>
    /\ UNCHANGED exceptTol

NextTol == ScrapeItem \/ ReturnRows \/ FetchCombo \/ TolFlush

TolKinds ==
    { [store |-> "PlayStore", id |-> "com.focus.app"],
      [store |-> "ChromeWS",  id |-> "abcdefgh"],
      [store |-> "AppStore",  id |-> "id42"] }

InitTol ==
    /\ tol_items \in SeqsUpTo(TolKinds, MaxSeeds)
    /\ \E fe \in {1, 3} : \E cu \in {0, 5} :
          tol_opts = [flush_every |-> fe, dedupe_scope |-> "global", cutoff |-> cu,
                      overwrite |-> FALSE]
    /\ tol_rows = <<>> /\ tol_i = 1 /\ tol_log = {}
    /\ tol_combos = <<>> /\ tol_j = 0 /\ tol_batch = <<>>
    /\ tol_st = [seen |-> {}, best |-> <<>>]
    /\ tol_csv = NoOut /\ tol_warn = {} /\ tol_got = {}
    /\ tpc = "details"
    /\ IdleButTol

SpecTol == InitTol /\ [][NextTol]_vars

\* the rows scrape_details owes: one per item that did not fail, in order
OwedRows ==
    LET ok == SelectIdx(tol_items, (1..Len(tol_items)) \ tol_log, 1)
    IN  [i \in 1..Len(ok) |-> [store |-> ok[i].store, id |-> ok[i].id,
                               app_key |-> details_app_key(ok[i].store, ok[i].id)]]

\* C21: a store scraper that raises for one item of scrape_details, or a
\* review fetch that raises for one (app, country, language), is logged,
\* every item is still attempted, scrape_details returns the rows of all
\* items that did not fail, and the reviews of all fetches that did not fail
\* are in the CSV when the run ends.
C21_FailureConfined ==
    /\ tpc \in {"reviews", "done"} =>
          /\ tol_i = Len(tol_items) + 1
          /\ tol_rows = OwedRows
    /\ tpc = "done" =>
          /\ tol_j = Len(tol_combos) + 1
          /\ \A r \in tol_got : HasRow(tol_csv.rows, r)
          /\ \A k \in 1..Len(tol_combos) :
                \/ k \in tol_warn
                \/ tol_combos[k].store = "ChromeWS"
                \/ HasRow(tol_csv.rows, fetched_review(tol_combos[k]))

\* an item failed in scrape_details and a fetch failed in the review loop,
\* with a successful item before and after each
C21_Witness ==
    /\ tpc = "done"
    /\ \E k \in tol_log : Len(tol_rows) >= 1 /\ k < Len(tol_items)
    /\ \E k \in tol_warn : k < Len(tol_combos) /\ (k + 1) \notin tol_warn
                           /\ tol_combos[k + 1].store # "ChromeWS"
    /\ tol_got # {}

-----------------------------------------------------------------------------
(* The LLM labeling programs around one vendor call per app:               *)
(* etl/llm_features (vendor openai), llm/feature_extract, llm/feature_llm, *)
(* llm/feature_extractor, and step 8 of scripts/refresh_all, which runs    *)
(* llm/feature_llm.  Whether a request to the vendor answers or raises is  *)
(* chosen by the environment; without an API key no request can succeed.   *)

LabelStages == {"llm_features", "feature_extract", "feature_llm", "feature_extractor",
                "refresh_all"}

\* what the program does before its loop when the key is absent:
\* refresh_all lines 343-346 and feature_extractor lines 44-48 skip,
\* feature_llm main lines 159-160 raises SystemExit, the others go on
before_loop(stage, key) ==
    IF key THEN "loop"
    ELSE CASE stage \in {"refresh_all", "feature_extractor"} -> "skipped"
           [] stage = "feature_llm" -> "exited"
           [] OTHER -> "loop"

CheckKey ==
    /\ vpc = "start"
    /\ vpc' = before_loop(lab_stage, lab_key)
    /\ lab_i' = 1
    /\ UNCHANGED <<lab_stage, lab_key, lab_apps, lab_rows, lab_out, lab_calls, lab_failed,
                   lab_matrix>>
    /\ UNCHANGED exceptVendor

\* whether the program catches an exception of its vendor call:
\* feature_extract lines 154-166 and feature_llm lines 117-134 do,
\* llm_features lines 151-156 and feature_extractor lines 54-59 do not
catches(stage) == stage \in {"feature_extract", "feature_llm", "refresh_all"}

\* the result kept for an app whose call raised, where it is caught
fallback_row(stage, ak) ==
    [app_key |-> ak, kind |-> IF stage = "feature_extract" THEN "stub" ELSE "error"]

\* one pass of the labeling loop
LabelApp ==
    /\ vpc = "loop"
    /\ lab_i <= Len(lab_apps)
    /\ LET ak == lab_apps[lab_i].app_key
       IN  \E answers \in BOOLEAN :
              \* ask_openai and the OpenAI client raise before any request
              \* when the key is absent
              LET reqs == IF lab_key THEN 1 ELSE 0
                  ok   == answers /\ lab_key
              IN  /\ lab_calls' = lab_calls + reqs
                  /\ IF ok
                     THEN /\ lab_rows' = Append(lab_rows, [app_key |-> ak, kind |-> "ok"])
                          /\ lab_i' = lab_i + 1
                          /\ UNCHANGED <<lab_failed, vpc>>
                     ELSE IF catches(lab_stage)
                     THEN /\ lab_rows' = Append(lab_rows, fallback_row(lab_stage, ak))
                          /\ lab_failed' = lab_failed \cup {lab_i}
                          /\ lab_i' = lab_i + 1
                          /\ UNCHANGED vpc
                     ELSE /\ lab_failed' = lab_failed \cup {lab_i}
                          /\ vpc' = "crashed"
                          /\ UNCHANGED <<lab_rows, lab_i>>
    /\ UNCHANGED <<lab_stage, lab_key, lab_apps, lab_out, lab_matrix>>
    /\ UNCHANGED exceptVendor

\* the write after the loop: llm_features lines 171-173, feature_extract
\* lines 174-183 (the rollup line calls Path.replace with two arguments and
\* raises once a feature row exists), feature_llm lines 138-141,
\* feature_extractor lines 73-80 (no file when no row)
WriteLabels ==
    /\ vpc = "loop"
    /\ lab_i > Len(lab_apps)
    /\ lab_out' = IF lab_stage = "feature_extractor" /\ lab_rows = <<>>
                  THEN lab_out
                  ELSE [written |-> TRUE, rows |-> lab_rows]
    /\ vpc' = IF lab_stage = "feature_extract"
                 /\ \E j \in 1..Len(lab_rows) : lab_rows[j].kind = "ok"
              THEN "crashed" ELSE "done"
    /\ UNCHANGED <<lab_stage, lab_key, lab_apps, lab_i, lab_rows, lab_calls, lab_failed,
                   lab_matrix>>
    /\ UNCHANGED exceptVendor

\* refresh_all lines 356-363: the matrix step starts after step 8
MatrixStep ==
    /\ lab_stage = "refresh_all"
    /\ vpc \in {"skipped", "done"}
    /\ ~lab_matrix
    /\ lab_matrix' = TRUE
    /\ UNCHANGED <<lab_stage, lab_key, lab_apps, lab_i, lab_rows, lab_out, lab_calls,
                   lab_failed, vpc>>
    /\ UNCHANGED exceptVendor

NextVendor == CheckKey \/ LabelApp \/ WriteLabels \/ MatrixStep

InitVendor ==
    /\ lab_stage \in LabelStages
    /\ lab_key \in BOOLEAN
    /\ lab_apps \in LlmTables
    /\ lab_i = 0 /\ lab_rows = <<>>
    /\ lab_out = [written |-> FALSE, rows |-> <<>>]
    /\ lab_calls = 0 /\ lab_failed = {} /\ lab_matrix = FALSE
    /\ vpc = "start"
    /\ IdleButVendor

SpecVendor == InitVendor /\ [][NextVendor]_vars

Ended == vpc \in {"done", "skipped", "crashed", "exited"}

\* C22: in llm_features, feature_extract and feature_llm a vendor call that
\* raises for one app does not end the loop: when the program has ended,
\* every app was visited and the output file was written with a result for
\* every app whose call did not raise.
C22_VendorFailurePerItem ==
    (lab_key /\ Ended /\ lab_stage \in {"llm_features", "feature_extract", "feature_llm"}) =>
        /\ lab_i = Len(lab_apps) + 1
        /\ lab_out.written
        /\ \A k \in (1..Len(lab_apps)) \ lab_failed :
              HasRow(lab_out.rows, [app_key |-> lab_apps[k].app_key, kind |-> "ok"])

\* C23: with no API key in the environment, refresh_all, feature_extractor
\* and llm_features send no request and do not end with an exception or a
\* non-zero exit.
C23_NoKeySkips ==
    (~lab_key /\ lab_stage \in {"refresh_all", "feature_extractor", "llm_features"}) =>
        /\ lab_calls = 0
        /\ vpc \notin {"crashed", "exited"}

-----------------------------------------------------------------------------
(* flatten_features on malformed records (specification SpecFlat).         *)

Unparseable(r) == r.obj.kind = "none"

-----------------------------------------------------------------------------
(* SpecTwice: detect_feature run a second time on the same app, website    *)
(* and review tables with the same pattern library.                        *)

\* feature_flags.main invoked again with the same arguments
DetectAgain ==
    /\ pc = "done"
    /\ first_run = <<>>
    /\ first_run' = << out_csv >>
    /\ pc' = "start"
    /\ UNCHANGED <<feature, apps_csv, web_csv, reviews_csv, df, reviews, idx, rows, out_csv>>
    /\ UNCHANGED exceptDetect

NextTwice == LoadTables \/ LoopRow \/ WriteOut \/ DetectAgain

\* app tables whose rows tie on every sort key, or not
InitTwice ==
    /\ feature \in Features
    /\ \E t1, t2 \in {Str("Pomo Site Blocker"), NaN} : \E swap \in BOOLEAN :
          apps_csv = IF swap THEN << App(K2, t2, Str("pomodoro blocker")), App(K1, t1, NaN) >>
                     ELSE << App(K1, t1, NaN), App(K2, t2, Str("pomodoro blocker")) >>
    /\ web_csv \in SeqsUpTo(WebRowKinds, MaxWebRows)
    /\ \E n \in {0, MaxReviews} : reviews_csv = Rep(n, HitReview)
    /\ StartFlags

SpecTwice == InitTwice /\ [][NextTwice]_vars

-----------------------------------------------------------------------------
(* SpecDriver: steps 7 and 9 of scripts/refresh_all in sequence:           *)
(* detect_feature writes a per-feature file, build_feature_matrix reads it *)
(* from the same directory with the thresholds and paths the driver        *)
(* passes.                                                                 *)

\* refresh_all defaults --feat-min-confidence 0.60, --feat-min-review-hits 5
FEAT_MIN_CONFIDENCE == 60
FEAT_MIN_REVIEW_HITS == 5

\* features_<feature>.csv as detect_feature writes it (line 362: app_key,
\* title, confidence, signals, review_hits) and pd.read_csv reads it back
label_file(f, rs) ==
    FeatureFile("features_" \o f \o ".csv", TRUE, FALSE,
                [i \in 1..Len(rs) |->
                    [app_key |-> rs[i].app_key, confidence |-> Num(rs[i].confidence),
                     review_hits |-> Num(rs[i].review_hits), flag |-> NaN]])

\* step_feature_matrix, lines 185-202, called from main lines 357-363: the
\* command names --apps-csv and --sent-csv, and neither --bundle-apps nor
\* --bundle-sent
StepFeatureMatrix ==
    /\ pc = "done"
    /\ mpc = "idle"
    /\ in_dir' = { label_file(feature, out_csv) }
    /\ min_conf' = FEAT_MIN_CONFIDENCE
    /\ min_hits' = FEAT_MIN_REVIEW_HITS
    /\ sent_csv' = SentFile(TRUE, TRUE, TRUE, << US10, DE90 >>)
    /\ bundle_apps' = FALSE
    /\ bundle_sent' = FALSE
    /\ bundle' = NoBundle
    /\ mpc' = "start"
    /\ UNCHANGED <<long_df, matrices>>
    /\ UNCHANGED <<confVars, flagVars, cardVars, extVars>>

NextDriver == LoadTables \/ LoopRow \/ WriteOut \/ StepFeatureMatrix
              \/ LoadLong \/ WriteMatrices \/ MaybeBundle

\* the first app matches by title and by description (or by title only);
\* it has 0, 5 or MaxReviews matching reviews
InitDriver ==
    /\ feature \in Features
    /\ \E d \in {Str("Pomodoro blocker for sites"), NaN} :
          apps_csv = << App(K1, Str("Pomo Site Blocker"), d),
                        App(K2, Str("Notes"), Str("Plain notes")) >>
    /\ web_csv \in SeqsUpTo(WebRowKinds, 1)
    /\ \E n \in {0, 5, MaxReviews} : reviews_csv = Rep(n, HitReview)
    /\ StartFlags

SpecDriver == InitDriver /\ [][NextDriver]_vars

\* C26: once the driver's matrix step has written the matrices, every app
\* that detect_feature labelled with confidence 0.80 and 0 review hits has
\* presence 1 for the feature in features_matrix_flags.
C26_HighConfidencePresent ==
    (pc = "done" /\ Written) =>
        \A j \in 1..Len(out_csv) :
            (out_csv[j].confidence = 80 /\ out_csv[j].review_hits = 0) =>
                matrices.flags.cell[<<out_csv[j].app_key, feature>>] = 1

\* C27: when the driver's matrix step has completed, with the app table and
\* the sentiment aggregate on disk, features_bundle.csv has been written.
C27_BundleProduced ==
    (pc = "done" /\ mpc = "done" /\ apps_csv # <<>> /\ sent_csv.exists) => bundle.written

-----------------------------------------------------------------------------
(* scripts/refresh_all: the nine steps of main, each a subprocess started  *)
(* by run().  The exit code of a step's command is chosen by the           *)
(* environment.                                                            *)

StepNames == << "scrape", "normalize", "clean", "websites", "reviews", "sentiment",
                "feature-flags", "feature-llm", "feature-matrix" >>

\* the tests of main, lines 275-365: a step runs unless skipped; the LLM
\* step also needs --use-llm and an API key
enabled(k, o) ==
    /\ StepNames[k] \notin o.skip
    /\ StepNames[k] = "feature-llm" => (o.use_llm /\ o.key)

\* a fresh run that ignores --dry-run
removes_mutant(k, o, files) ==
    StepNames[k] = "websites" /\ o.fresh /\ "websites.csv" \in files

\* step_websites lines 93-95: the only file a step removes before its command
removes(k, o, files) ==
    StepNames[k] = "websites" /\ o.fresh /\ ~o.dry /\ "websites.csv" \in files

\* main skips a step that is not enabled
SkipStep ==
    /\ refpc = "run" /\ ref_running = 0
    /\ ref_step <= Len(StepNames)
    /\ ~enabled(ref_step, ref_opts)
    /\ ref_step' = ref_step + 1
    /\ UNCHANGED <<ref_opts, ref_running, ref_log, ref_files, ref_files0, ref_exit, refpc>>
    /\ UNCHANGED exceptRefresh

\* a step function up to subprocess.run: run() returns 0 at once on
\* --dry-run (lines 37-38), otherwise the command starts
StartStep ==
    /\ refpc = "run" /\ ref_running = 0
    /\ ref_step <= Len(StepNames)
    /\ enabled(ref_step, ref_opts)
    /\ ref_files' = IF removes(ref_step, ref_opts, ref_files)
                    THEN ref_files \ {"websites.csv"} ELSE ref_files
    /\ IF ref_opts.dry
       THEN /\ ref_step' = ref_step + 1
            /\ UNCHANGED <<ref_running, ref_log>>
       ELSE /\ ref_running' = ref_step
            /\ ref_log' = Append(ref_log, [ev |-> "start", step |-> ref_step, code |-> 0])
            /\ UNCHANGED ref_step
    /\ UNCHANGED <<ref_opts, ref_files0, ref_exit, refpc>>
    /\ UNCHANGED exceptRefresh

\* the file a step's command leaves when it succeeds
written_by(k) ==
    CASE StepNames[k] = "websites" -> {"websites.csv"}
      [] StepNames[k] = "reviews" -> {"reviews.csv"}
      [] OTHER -> {}

\* run(), lines 39-46: the command ends; a non-zero exit ends refresh_all
\* with that code unless --continue-on-error
MaxFailures == 1    \* most failing commands of one run

Failed(log) == {i \in 1..Len(log) : log[i].ev = "end" /\ log[i].code # 0}

EndStep ==
    /\ refpc = "run" /\ ref_running # 0
    /\ \E code \in {0, 1, 2} :
          /\ (code # 0) => Cardinality(Failed(ref_log)) < MaxFailures
          /\ ref_log' = Append(ref_log, [ev |-> "end", step |-> ref_running, code |-> code])
          /\ ref_files' = IF code = 0 THEN ref_files \cup written_by(ref_running) ELSE ref_files
          /\ IF code # 0 /\ ~ref_opts.coe
             THEN /\ ref_exit' = code
                  /\ refpc' = "exited"
                  /\ UNCHANGED ref_step
             ELSE /\ ref_step' = ref_step + 1
                  /\ UNCHANGED <<ref_exit, refpc>>
    /\ ref_running' = 0
    /\ UNCHANGED <<ref_opts, ref_files0>>
    /\ UNCHANGED exceptRefresh

\* lines 367-382: main returns
FinishRefresh ==
    /\ refpc = "run" /\ ref_running = 0
    /\ ref_step = Len(StepNames) + 1
    /\ ref_exit' = 0
    /\ refpc' = "finished"
    /\ UNCHANGED <<ref_opts, ref_step, ref_running, ref_log, ref_files, ref_files0>>
    /\ UNCHANGED exceptRefresh

NextRefresh == SkipStep \/ StartStep \/ EndStep \/ FinishRefresh

SkipSets == { {}, {"scrape", "normalize", "clean"}, {"websites"},
              {"scrape", "normalize", "clean", "reviews", "sentiment", "feature-flags"} }

InitRefresh ==
    /\ \E dry, coe, fresh \in BOOLEAN : \E sk \in SkipSets :
       \E llm \in BOOLEAN : \E key \in {k \in BOOLEAN : llm \/ ~k} :
          ref_opts = [dry |-> dry, coe |-> coe, skip |-> sk, use_llm |-> llm, key |-> key,
                      fresh |-> fresh]
    /\ ref_files \in { {}, {"websites.csv"} }
    /\ ref_files0 = ref_files
    /\ ref_step = 1 /\ ref_running = 0 /\ ref_log = <<>> /\ ref_exit = -1
    /\ refpc = "run"
    /\ IdleButRefresh

SpecRefresh == InitRefresh /\ [][NextRefresh]_vars

Starts == SelectIdx(ref_log, {i \in 1..Len(ref_log) : ref_log[i].ev = "start"}, 1)
Failure(i) == ref_log[i].ev = "end" /\ ref_log[i].code # 0
EnabledSteps == {k \in 1..Len(StepNames) : enabled(k, ref_opts)}

\* C28: refresh_all starts its enabled steps in the order of StepNames, each
\* command ending before the next starts; without --continue-on-error the
\* first failing command is the last thing run and its code is the exit
\* code; with --continue-on-error every enabled step is started; with
\* --dry-run nothing is started and no file is removed.
C28_StepOrder ==
    /\ \A i \in 1..Len(ref_log) :
          /\ (i % 2 = 1) => ref_log[i].ev = "start" /\ enabled(ref_log[i].step, ref_opts)
          /\ (i % 2 = 0) => ref_log[i].ev = "end" /\ ref_log[i].step = ref_log[i - 1].step
    /\ \A i \in 1..Len(Starts) : \A j \in (i + 1)..Len(Starts) : Starts[i].step < Starts[j].step
    /\ ~ref_opts.coe =>
          /\ \A i \in 1..Len(ref_log) :
                Failure(i) => i = Len(ref_log) /\ refpc = "exited" /\ ref_exit = ref_log[i].code
          /\ refpc = "exited" => Failure(Len(ref_log))
    /\ (refpc = "finished" /\ ~ref_opts.dry) =>
          {Starts[i].step : i \in 1..Len(Starts)} = EnabledSteps
    /\ ref_opts.coe => refpc # "exited"
    /\ ref_opts.dry => ref_log = <<>> /\ ref_files0 \subseteq ref_files

\* a run with --continue-on-error went on after a failed step to the end;
\* it had been told to start afresh over an existing websites file
C28_Witness ==
    /\ refpc = "finished" /\ ref_opts.coe /\ ~ref_opts.dry
    /\ \E i \in 1..Len(ref_log) : Failure(i) /\ i < Len(ref_log)
    /\ ref_opts.fresh /\ "websites.csv" \in ref_files0
    /\ Len(Starts) >= 6

-----------------------------------------------------------------------------
(* _pick_better and read_seen_keys on a pair of text-equivalent rows.  A   *)
(* timestamp is a positive number; 0 stands for a missing or unparseable   *)
(* "at" (_parse_at_iso returns None).                                      *)

\* maybe_flush line 424 with an existing row
PickBetter ==
    /\ ppc = "start"
    /\ pick_out' = _pick_better(pick_a, pick_b)
    /\ ppc' = "picked"
    /\ UNCHANGED <<pick_a, pick_b, pick_seen>>
    /\ UNCHANGED exceptPick

\* read_seen_keys over a CSV that holds a and then b
ReadPair ==
    /\ ppc = "picked"
    /\ pick_seen' = read_seen_keys([exists |-> TRUE, rows |-> << pick_a, pick_b >>],
                                   "global").best
    /\ ppc' = "done"
    /\ UNCHANGED <<pick_a, pick_b, pick_out>>
    /\ UNCHANGED exceptPick

NextPick == PickBetter \/ ReadPair

\* bodies that normalise to the same text, of lengths 10, 9 and 13
EquivalentBodies == {"Great app!", "great app", "GREAT  APP!!!"}
PickTimes == {0, 10, 12}

InitPick ==
    /\ \E ta \in PickTimes : \E ba \in EquivalentBodies :
          pick_a = Review(K1, "us", "r1", "", ba, ta)
    /\ \E tb \in PickTimes : \E bb \in EquivalentBodies :
          pick_b = Review(K1, "gb", "r2", "", bb, tb)
    /\ pick_out = <<>> /\ pick_seen = <<>>
    /\ ppc = "start"
    /\ IdleButPick

SpecPick == InitPick /\ [][NextPick]_vars

Longer(a, b) == IF Len(b.body) > Len(a.body) THEN b ELSE a

\* C29: _pick_better returns b when b is newer than a, the row with the
\* longer body when the two timestamps tie or are both missing, and a when
\* b is older; read_seen_keys keeps the same row of the pair.
C29_PickBetter ==
    ppc # "start" =>
        /\ (pick_a.at # 0 /\ pick_b.at > pick_a.at) => pick_out = pick_b
        /\ (pick_a.at = pick_b.at) => pick_out = Longer(pick_a, pick_b)
        /\ (pick_b.at # 0 /\ pick_b.at < pick_a.at) => pick_out = pick_a
        /\ ppc = "done" => (Len(pick_seen) = 1 /\ pick_seen[1].row = pick_out)


(***************************************************************************)
(* etl/scrape_websites.py, fetch_http: the plain HTTP fetch with retries.  *)
(* The environment chooses what each request meets: an exception (timeout, *)
(* connection error) or a response with a status, a content type and a     *)
(* body.  None is written 0 for the status and "" for the URL and title.   *)
(***************************************************************************)
MaxAttempts == 3

Raised == [raised |-> TRUE]
Response(st, ct, tx, fu) ==
    [raised |-> FALSE, status_code |-> st, ctype |-> ct, text |-> tx, url |-> fu]

Statuses == {200, 404, 503}
ContentTypes == {"Text/HTML; charset=utf-8", "application/json"}
Bodies == {"", "<title> Focus </title>"}
Responses ==
    {Raised} \cup {Response(st, ct, tx, "https://a.example/") :
                      st \in Statuses, ct \in ContentTypes, tx \in Bodies}

\* line 129: status 200, a content type naming html, a non-empty body
is_html(r) ==
    ~r.raised /\ r.status_code = 200 /\ Contains(lower(r.ctype), "html") /\ r.text # ""

\* _title_from_html: the stripped title of the page, None when there is none
_title_from_html(h) == IF Contains(h, "<title> Focus </title>") THEN "Focus" ELSE ""

\* lines 119-121: an empty url returns at once, otherwise the loop begins
EnterFetch ==
    /\ hpc = "start"
    /\ IF http_url = ""
         THEN /\ http_ret' = <<0, "", "", "">>
              /\ hpc' = "done"
         ELSE /\ http_ret' = http_ret
              /\ hpc' = "loop"
    /\ UNCHANGED <<http_url, http_attempts, attempt, last_status, html,
                   last_final, page_title, http_sent, http_slept>>
    /\ UNCHANGED exceptHttp

\* lines 122-135: one iteration of the loop, one request
Attempt_mutant ==
    /\ hpc = "loop"
    /\ attempt < http_attempts
    /\ \E r \in Responses :
          /\ http_sent' = Append(http_sent, r)
          /\ IF r.raised
               THEN UNCHANGED <<last_status, last_final, html, page_title>>
               ELSE /\ last_status' = r.status_code
                    /\ last_final' = r.url
                    /\ IF is_html(r)
                         THEN /\ html' = r.text
                              /\ page_title' = _title_from_html(r.text)
                         ELSE UNCHANGED <<html, page_title>>
          /\ http_slept' = http_slept + 8 * (attempt + 1)
          /\ attempt' = attempt + 1
          /\ hpc' = "loop"
    /\ UNCHANGED <<http_url, http_attempts, http_ret>>
    /\ UNCHANGED exceptHttp

Attempt ==
    /\ hpc = "loop"
    /\ attempt < http_attempts
    /\ \E r \in Responses :
          /\ http_sent' = Append(http_sent, r)
          /\ IF r.raised
               THEN UNCHANGED <<last_status, last_final, html, page_title>>
               ELSE /\ last_status' = r.status_code
                    /\ last_final' = r.url
                    /\ IF is_html(r)
                         THEN /\ html' = r.text
                              /\ page_title' = _title_from_html(r.text)
                         ELSE UNCHANGED <<html, page_title>>
          /\ IF is_html(r)
               THEN /\ hpc' = "break"
                    /\ UNCHANGED <<attempt, http_slept>>
               ELSE /\ http_slept' = http_slept + 8 * (attempt + 1)
                    /\ attempt' = attempt + 1
                    /\ hpc' = "loop"
    /\ UNCHANGED <<http_url, http_attempts, http_ret>>
    /\ UNCHANGED exceptHttp

\* line 136: the loop is exhausted or was left by break
ReturnFetch ==
    /\ \/ hpc = "break"
       \/ hpc = "loop" /\ attempt >= http_attempts
    /\ http_ret' = <<last_status, html, last_final, page_title>>
    /\ hpc' = "done"
    /\ UNCHANGED <<http_url, http_attempts, attempt, last_status, html,
                   last_final, page_title, http_sent, http_slept>>
    /\ UNCHANGED exceptHttp

NextHttp == EnterFetch \/ Attempt \/ ReturnFetch

InitHttp ==
    /\ http_url \in {"", "https://a.example"}
    /\ http_attempts \in 0..MaxAttempts
    /\ attempt = 0 /\ last_status = 0 /\ html = "" /\ last_final = ""
    /\ page_title = "" /\ http_sent = <<>> /\ http_slept = 0
    /\ http_ret = <<>>
    /\ hpc = "start"
    /\ IdleButHttp

\* the calls are sequential and nothing else runs: a step that can be taken
\* is taken
SpecHttp == InitHttp /\ [][NextHttp]_vars /\ WF_vars(NextHttp)

Succeeded == \E i \in 1..Len(http_sent) : is_html(http_sent[i])

\* C30: fetch_http issues at most `attempts` requests, none after the first
\* response with status 200 and HTML content, returns empty html when no
\* attempt succeeded and status None when every attempt raised, and always
\* returns.
C30_BoundedRetries ==
    /\ [](/\ Len(http_sent) <= http_attempts
          /\ \A i \in 1..Len(http_sent) : is_html(http_sent[i]) => i = Len(http_sent)
          /\ hpc = "done" =>
                /\ ~Succeeded => http_ret[2] = ""
                /\ (\A i \in 1..Len(http_sent) : http_sent[i].raised) => http_ret[1] = 0)
    /\ <>(hpc = "done")

\* the default budget, two failures (an exception, a 503) and then a page
C30_Witness ==
    /\ hpc = "done" /\ http_attempts = 3 /\ Len(http_sent) = 3
    /\ http_sent[1].raised /\ ~http_sent[2].raised /\ is_html(http_sent[3])
    /\ http_ret[2] # ""

====
